---- MODULE Spec2Model ----
(***************************************************************************)
(* Bookkeeping of the software-emulation shim (CpuemShim, shim.cxx): the   *)
(* per-bank device-memory allocators, the buffer-object registry, the lazy *)
(* spawn of the peer process and the chunked copy primitives, as a state   *)
(* machine over one device.                                                *)
(***************************************************************************)
EXTENDS Bags, FiniteSets, Integers, Sequences, TLC

(* ------------------------------ bounds -------------------------------- *)
\* number of entries of the DDRBankList handed to the constructor, at most
MaxBanks == 2
\* size of every bank, in pages
BankPages == 2
\* cap on the number of BO handles handed out in one run
MaxBOs == 2
\* cap on the descriptors / host mappings open at the same time
MaxFds == 1
\* cap on the regions held at the same time through xclAllocDeviceBuffer2
MaxLive == 2
\* cap on the chunks one copy call is followed for
MaxChunks == 5
\* the largest size a followed copy call is given
MaxCopySize == 4
\* caller threads of one device
MaxThreads == 2
\* cap on the binary directories numbered in one run
MaxLoads == 3
\* queue requests submitted in one run
MaxReqs == 5
\* buffers of one queue request
MaxBufs == 2
\* largest min_compl and max_compl given to xclPollCompletion
MaxCompl == 4
\* largest timeout given to xclPollCompletion
MaxTimeout == 1
\* entries of the memory topology of a container
MaxMem == 2
\* entries of the connectivity table of a container
MaxConn == 2
\* the descriptors, and the host mappings, that calls of xclMapBO may hold at once
\* where the same buffer is mapped again
MaxMaps == 2
\* the devices registered in the host process
MaxDevices == 2
\* the FunctionCallLogger objects alive at the same time
MaxLoggers == 2
\* the identifiers issue_id() hands out in one run
MaxIssued == 3
\* the events that carry a profiling action
MaxEvents == 2
\* the peer processes forked in one run of the host
MaxChildren == 2
\* the binary directories of one device of the host
MaxBinaries == 2

(* -------------------------- program constants ------------------------- *)
\* getpagesize(), the alignment given to every MemoryManager
PageSize == 4096
\* DDR_BUFFER_ALIGNMENT, the size a zero-sized device allocation is given
DDR_BUFFER_ALIGNMENT == 64
\* MemoryManager::mNull, (uint64_t)-1
mNull == -1
\* CpuemShim::mNullBO, (unsigned)-1
mNullBO == -1
\* message_size when SW_EMU_PACKET_SIZE is not set
DefaultMessageSize == 8388608
\* errno value EIO
EIO == 5
\* MAP_FAILED, (void*)-1
MAP_FAILED == -1
XCL_MEM_DEVICE_RAM == "XCL_MEM_DEVICE_RAM"
XCL_MEM_HOST_RAM == "XCL_MEM_HOST_RAM"
XCL_BO_SYNC_BO_TO_DEVICE == "XCL_BO_SYNC_BO_TO_DEVICE"
XCL_BO_SYNC_BO_FROM_DEVICE == "XCL_BO_SYNC_BO_FROM_DEVICE"
\* the first descriptor open() can return (0, 1, 2 are the standard streams)
FirstFd == 3

VARIABLES
  mDDRBankCount,      \* mDeviceInfo.mDDRBankCount, from the info given at construction
  simDontRun,         \* config::isDontRun()
  message_size,       \* CpuemShim::message_size
  mDDRMemoryManager,  \* sequence of MemoryManager states, bank i at index i+1
  sock,               \* TRUE when the channel object exists
  binaryCounter,      \* CpuemShim::binaryCounter
  forked,             \* number of peer processes forked so far
  mXoclObjMap,        \* handle -> drm_xocl_bo
  mBufferCount,       \* CpuemShim::mBufferCount
  mFdToFileNameMap,   \* fd -> (file name, size, mapped address)
  mImportedBOs,       \* handles marked as imported
  openFds,            \* descriptors opened by the shim and not closed
  hostMaps,           \* host mappings / buffers created and not released
  ret,                \* the last call: its name, arguments and returned value
  sent,               \* the requests the last call forwarded to the peer, in order
  live,               \* bag of the regions handed out by xclAllocDeviceBuffer2 and not freed
  handed,             \* the handles returned by successful creations, in order
  cp,                 \* the copy call in progress (SpecCopy): locals of the chunking loop
  channels,           \* number of unix_socket objects created so far
  mReqList,           \* CpuemShim::mReqList: the outstanding non-blocking requests
  mReqCounter,        \* CpuemShim::mReqCounter
  poll,               \* the xclPollCompletion call in progress: its arguments and locals
  thread,             \* thread -> the call it is in and its position in it
  mApiMtx,            \* the thread holding CpuemShim::mApiMtx, or NoThread
  mProcessLaunchMtx,  \* the thread holding CpuemShim::mProcessLaunchMtx, or NoThread
  inflight,           \* the requests sent on the channel and not yet answered
  xclbin,             \* the tables of the container the caller loads: memory topology
                      \* and connectivity
  completed,          \* peer side: the requests the peer has finished processing
  qlog,               \* history: the non-blocking requests issued, the completions
                      \* written to a caller's array, the ones written outside it
  devices,            \* xclcpuemhal2::devices: index -> the CpuemShim registered under it
  children,           \* the process table of the host: the peers forked, pid -> state
  hostProc,           \* the host process: running, or how it terminated
  handlers,           \* TRUE when sigaction has installed sigHandler
  sigLog,             \* what the last run of sigHandler did, in order
  keepRunDir,         \* config::isKeepRunDirEnabled()
  owner,              \* history: fd -> the device whose call made the file-map entry
  lopLoaded,          \* TRUE once xdp::lop::load() has constructed its module_loader
  lopCb,              \* the callbacks of xdp::lop: TRUE when set, FALSE when nullptr
  issued,             \* the next value of xrt_core::utils::issue_id()
  loggers,            \* the live FunctionCallLogger objects
  events,             \* event uid -> the action set_lop_action gave it
  calls               \* the plugin callbacks the last operation invoked, in order

vars == <<mDDRBankCount, simDontRun, message_size, mDDRMemoryManager, sock,
          binaryCounter, forked, mXoclObjMap, mBufferCount, mFdToFileNameMap,
          mImportedBOs, openFds, hostMaps, ret, sent, live, handed, cp,
          channels, mReqList, mReqCounter, poll, thread, mApiMtx, mProcessLaunchMtx,
          inflight, completed, qlog, xclbin, devices, children, hostProc, handlers,
          sigLog, keepRunDir, owner, lopLoaded, lopCb, issued, loggers, events, calls>>

(* --------------------------- MemoryManager ---------------------------- *)
\* the size of a bank in bytes
BankSize == BankPages * PageSize

RoundUp(n, a) == ((n + a - 1) \div a) * a

\* MemoryManager(size, start, alignment): one free block covering the bank
MM_new(start, size) ==
  [mStart |-> start, mSize |-> size, mFreeSize |-> size,
   mFreeBufferList |-> << <<start, size>> >>, mBusyBufferList |-> {}]

RemoveAt(s, i) == SubSeq(s, 1, i - 1) \o SubSeq(s, i + 1, Len(s))

\* index of the first free block that can hold size bytes, 0 when there is none
FirstFit(list, size) ==
  IF \E i \in 1..Len(list) : list[i][2] >= size
  THEN CHOOSE i \in 1..Len(list) :
         /\ list[i][2] >= size
         /\ \A j \in 1..(i - 1) : list[j][2] < size
  ELSE 0

\* MemoryManager::alloc(size): first fit; size is updated to the aligned size
MM_alloc(m, origSize) ==
  LET s0   == IF origSize = 0 THEN PageSize ELSE origSize
      size == RoundUp(s0, PageSize)
      idx  == FirstFit(m.mFreeBufferList, size)
  IN IF idx = 0
     THEN [result |-> mNull, size |-> size, mm |-> m]
     ELSE LET blk == m.mFreeBufferList[idx]
              newFree == IF blk[2] > size
                         THEN [m.mFreeBufferList EXCEPT ![idx] = <<blk[1] + size, blk[2] - size>>]
                         ELSE RemoveAt(m.mFreeBufferList, idx)
          IN [result |-> blk[1], size |-> size,
              mm |-> [m EXCEPT !.mFreeBufferList = newFree,
                               !.mBusyBufferList = @ \cup {<<blk[1], size>>},
                               !.mFreeSize = @ - size]]

\* the free list with blk put at its place in address order
InsertSorted(list, blk) ==
  LET k == Cardinality({i \in 1..Len(list) : list[i][1] < blk[1]})
  IN SubSeq(list, 1, k) \o <<blk>> \o SubSeq(list, k + 1, Len(list))

RECURSIVE Coalesce(_)
\* MemoryManager::coalesce(): neighbours of the address-ordered free list are merged
Coalesce(list) ==
  IF Len(list) < 2 THEN list
  ELSE IF list[1][1] + list[1][2] = list[2][1]
       THEN Coalesce(<< <<list[1][1], list[1][2] + list[2][2]>> >> \o SubSeq(list, 3, Len(list)))
       ELSE <<list[1]>> \o Coalesce(Tail(list))

\* MemoryManager::free(buf): releases the busy block starting at buf, if there is one
MM_free(m, buf) ==
  IF ~ \E b \in m.mBusyBufferList : b[1] = buf
  THEN m
  ELSE LET b == CHOOSE x \in m.mBusyBufferList : x[1] = buf
       IN [m EXCEPT !.mFreeSize = @ + b[2],
                    !.mFreeBufferList = Coalesce(InsertSorted(@, b)),
                    !.mBusyBufferList = @ \ {b}]

RECURSIVE initMemoryManager(_, _)
\* CpuemShim::initMemoryManager: one MemoryManager per bank, bases accumulate
initMemoryManager(n, base) ==
  IF n = 0 THEN <<>>
  ELSE <<MM_new(base, BankSize)>> \o initMemoryManager(n - 1, base + BankSize)

RECURSIVE SumFree(_)
SumFree(mms) == IF mms = <<>> THEN 0 ELSE Head(mms).mFreeSize + SumFree(Tail(mms))

\* CpuemShim::xclGetDeviceInfo2: mDDRFreeSize is the sum of the banks' free sizes
xclGetDeviceInfo2(mms) == SumFree(mms)

(* ----------------------------- the session ---------------------------- *)
Sess == [sock |-> sock, binaryCounter |-> binaryCounter, forked |-> forked,
         channels |-> channels]

\* CpuemShim::launchDeviceProcess without the test of the channel
launchDeviceProcess_forksAgain(S) ==
  [sock |-> TRUE, binaryCounter |-> S.binaryCounter + 1,
   forked |-> IF simDontRun THEN S.forked ELSE S.forked + 1,
   channels |-> S.channels + 1]

\* CpuemShim::launchDeviceProcess: the binary directory is numbered and the
\* counter advanced, then the peer is forked and the channel created when absent
launchDeviceProcess(S) ==
  IF S.sock
  THEN [S EXCEPT !.binaryCounter = @ + 1]
  ELSE [sock |-> TRUE, binaryCounter |-> S.binaryCounter + 1,
        forked |-> IF simDontRun THEN S.forked ELSE S.forked + 1,
        channels |-> S.channels + 1]

\* CpuemShim::launchTempProcess: spawn, then an xclLoadBitstream request
launchTempProcess(S) ==
  [S |-> launchDeviceProcess(S), sent |-> <<[call |-> "xclLoadBitstream"]>>]

\* the lazy spawn at the head of the operations that need the channel
EnsureSock(S) == IF ~S.sock THEN launchTempProcess(S) ELSE [S |-> S, sent |-> <<>>]

(* --------------------------- device buffers --------------------------- *)
\* answers of the peer to an allocation request: acknowledgement and file name
Replies == [ack : BOOLEAN, filename : {"", "bofile"}]

\* CpuemShim::xclAllocDeviceBuffer2 without the early return of a failed allocation
xclAllocDeviceBuffer2_forwardsFailure(mms, S, size, domain, flags, noHostMemory, reply) ==
  LET L == EnsureSock(S)
      sz == IF size = 0 THEN DDR_BUFFER_ALIGNMENT ELSE size
  IN IF domain # XCL_MEM_DEVICE_RAM \/ flags >= Len(mms)
     THEN [result |-> mNull, size |-> size, mm |-> mms, S |-> L.S, sent |-> L.sent, sFileName |-> ""]
     ELSE LET req(a) == [call |-> "xclAllocDeviceBuffer", addr |-> a.result,
                         size |-> a.size, noHostMemory |-> noHostMemory]
              rpc(a) ==
                [result |-> IF a.result = mNull THEN mNull ELSE IF reply.ack THEN a.result ELSE 0,
                 size |-> a.size,
                 mm |-> [mms EXCEPT ![flags + 1] = a.mm], S |-> L.S,
                 sent |-> L.sent \o <<req(a)>>, sFileName |-> reply.filename]
          IN rpc(MM_alloc(mms[flags + 1], sz))

\* CpuemShim::xclAllocDeviceBuffer2(size, domain, flags, noHostMemory, sFileName)
xclAllocDeviceBuffer2(mms, S, size, domain, flags, noHostMemory, reply) ==
  LET L == EnsureSock(S)
  IN IF domain # XCL_MEM_DEVICE_RAM
     THEN [result |-> mNull, size |-> size, mm |-> mms, S |-> L.S, sent |-> L.sent, sFileName |-> ""]
     ELSE LET sz == IF size = 0 THEN DDR_BUFFER_ALIGNMENT ELSE size
          IN IF flags >= Len(mms)
             THEN [result |-> mNull, size |-> sz, mm |-> mms, S |-> L.S, sent |-> L.sent, sFileName |-> ""]
             ELSE LET req(a) == [call |-> "xclAllocDeviceBuffer", addr |-> a.result,
                                 size |-> a.size, noHostMemory |-> noHostMemory]
                      rpc(a) ==
                        IF a.result = mNull
                        THEN [result |-> mNull, size |-> a.size, mm |-> mms, S |-> L.S,
                              sent |-> L.sent, sFileName |-> ""]
                        ELSE [result |-> IF reply.ack THEN a.result ELSE 0,
                              size |-> a.size,
                              mm |-> [mms EXCEPT ![flags + 1] = a.mm], S |-> L.S,
                              sent |-> L.sent \o <<req(a)>>, sFileName |-> reply.filename]
                  IN rpc(MM_alloc(mms[flags + 1], sz))

\* the test of the loop of xclFreeDeviceBuffer: if (offset < i->start() + i->size())
CallsFree(m, offset) == offset < m.mStart + m.mSize

RECURSIVE FreeInBanks(_, _, _)
\* the loop of xclFreeDeviceBuffer: free is called on every bank that ends above offset
FreeInBanks(mms, i, offset) ==
  IF i > Len(mms) THEN mms
  ELSE FreeInBanks(IF CallsFree(mms[i], offset)
                   THEN [mms EXCEPT ![i] = MM_free(mms[i], offset)]
                   ELSE mms, i + 1, offset)

\* CpuemShim::xclFreeDeviceBuffer(offset)
xclFreeDeviceBuffer(mms, S, offset) ==
  [mm |-> FreeInBanks(mms, 1, offset),
   sent |-> IF S.sock THEN <<[call |-> "xclFreeDeviceBuffer", addr |-> offset]>> ELSE <<>>]

(* ---------------- the tables of a binary container ------------------- *)
\* MEM_TYPE of a memory-topology entry: streaming or not
MemTypes == {"MEM_STREAMING", "MEM_DDR4"}

\* flow ids: two flows of the instance at 0x10000 and one of the instance at 0x20000
FlowIds == {65536, 65537, 131072}

\* mem_data: the fields the load reads; the tag of an entry goes with its flow id
MemData == [flow_id : FlowIds, m_type : MemTypes]

\* connection: the memory index (one below and one above the topology included)
\* and the argument index
Connections == [mem_data_index : (-1)..MaxMem, arg_index : 0..1]

RECURSIVE SeqsUpTo(_, _)
\* the sequences over S of length at most n
SeqsUpTo(S, n) ==
  IF n = 0 THEN {<<>>}
  ELSE SeqsUpTo(S, n - 1) \cup {Append(q, x) : q \in {r \in SeqsUpTo(S, n - 1) : Len(r) = n - 1}, x \in S}

\* the containers a caller may hold: a full memory topology and any connectivity table
AllTables == [mem : {m \in SeqsUpTo(MemData, MaxMem) : Len(m) = MaxMem},
              conn : SeqsUpTo(Connections, MaxConn)]

\* a container with one streaming memory and one connection to it
DefaultTables ==
  [mem |-> <<[flow_id |-> 65536, m_type |-> "MEM_STREAMING"]>>,
   conn |-> <<[mem_data_index |-> 0, arg_index |-> 0]>>]

\* the same with a connection to a memory index above the topology
BadTables ==
  [mem |-> DefaultTables.mem, conn |-> <<[mem_data_index |-> 1, arg_index |-> 0]>>]

(* ------------------------------- Init --------------------------------- *)
NoCopy == [pc |-> "idle"]
NoPoll == [pc |-> "idle"]
NoLog == [issued |-> {}, reported |-> EmptyBag, lost |-> {}]

\* the caller threads of one device, and the value of a mutex nobody holds
Threads == 1..MaxThreads
NoThread == 0
\* a thread that is in no call
Idle == [pc |-> "idle"]

\* the devices of the host process, by their index in xclcpuemhal2::devices
Devices == 0..(MaxDevices - 1)
\* one CpuemShim after its constructor: no channel, no binary loaded, one bank,
\* an empty registry, the device directory not created, in no call
NewDevice == [S |-> [sock |-> FALSE, binaryCounter |-> 0, forked |-> 0, channels |-> 0],
              mm |-> initMemoryManager(1, 0), map |-> <<>>, imported |-> {}, dir |-> FALSE,
              pc |-> "idle"]
\* the host process while it runs
Running == [st |-> "running"]

\* the callbacks of xdp::lop (lop.cpp:40-44)
Callbacks == {"function_start_cb", "function_end_cb", "read_cb", "write_cb", "enqueue_cb"}

\* an event without a profiling action
NoAction == [lambda |-> "none"]

\* a FunctionCallLogger slot without an object
NoLogger == [live |-> FALSE]

\* the profiling hooks before xdp::lop::load(): every std::function empty, no
\* logger constructed, no event given an action
LopInit ==
  /\ lopLoaded = FALSE
  /\ lopCb = [c \in Callbacks |-> FALSE]
  /\ issued = 0
  /\ loggers = [o \in 1..MaxLoggers |-> NoLogger]
  /\ events = [e \in 1..MaxEvents |-> NoAction]
  /\ calls = <<>>

\* the process at start: the devices constructed, no child, the default signal
\* dispositions, the keep-run-directory setting as configured
ProcInit(keeps) ==
  /\ devices = [d \in Devices |-> NewDevice]
  /\ children = <<>>
  /\ hostProc = Running
  /\ handlers = FALSE
  /\ sigLog = <<>>
  /\ keepRunDir \in keeps
  /\ owner = <<>>
  /\ LopInit

\* the state after CpuemShim::CpuemShim: the allocators of the DDRBankList, no
\* channel, an empty registry; SW_EMU_PACKET_SIZE is not set
InitTables(msgSizes, bankCounts, dontRun, containers) ==
  /\ xclbin \in containers
  /\ mDDRBankCount \in bankCounts
  /\ simDontRun \in dontRun
  /\ message_size \in msgSizes
  /\ \E n \in 1..MaxBanks : mDDRMemoryManager = initMemoryManager(n, 0)
  /\ sock = FALSE
  /\ binaryCounter = 0
  /\ forked = 0
  /\ mXoclObjMap = <<>>
  /\ mBufferCount = 0
  /\ mFdToFileNameMap = <<>>
  /\ mImportedBOs = {}
  /\ openFds = {}
  /\ hostMaps = {}
  /\ ret = [op |-> "none", hasVal |-> FALSE, val |-> 0]
  /\ sent = <<>>
  /\ live = EmptyBag
  /\ handed = <<>>
  /\ cp = NoCopy
  /\ channels = 0
  /\ mReqList = <<>>
  /\ mReqCounter = 0
  /\ poll = NoPoll
  /\ thread = [t \in Threads |-> Idle]
  /\ mApiMtx = NoThread
  /\ mProcessLaunchMtx = NoThread
  /\ inflight = {}
  /\ completed = {}
  /\ qlog = NoLog
  /\ ProcInit({FALSE})

\* the same, the caller holding the default container
InitWith(msgSizes, bankCounts, dontRun) ==
  InitTables(msgSizes, bankCounts, dontRun, {DefaultTables})

Init == InitWith({DefaultMessageSize}, 1..(MaxBanks + 1), {FALSE})

\* the same, with the bank count of the device info equal to the number of banks
InitAlloc ==
  /\ InitWith({DefaultMessageSize}, 1..MaxBanks, {FALSE})
  /\ mDDRBankCount = Len(mDDRMemoryManager)

(* ------------------- the device-buffer interface ---------------------- *)
\* the sizes a caller asks for: zero, less than a page, more than a page, more than a bank
Sizes == {0, 1, PageSize + 1, BankSize + 1}

boState == <<mXoclObjMap, mBufferCount, mFdToFileNameMap, mImportedBOs, openFds,
             hostMaps, handed>>
lopState == <<lopLoaded, lopCb, issued, loggers, events, calls>>
\* what no call of the shim changes: the setting of the run directory and
\* the state of the profiling hooks
hostConfig == <<keepRunDir, lopState>>
procState == <<devices, children, hostProc, handlers, sigLog, hostConfig, owner>>
config == <<mDDRBankCount, simDontRun, message_size, xclbin, procState>>
qState == <<mReqList, mReqCounter, poll, completed, qlog>>
thState == <<thread, mApiMtx, mProcessLaunchMtx, inflight>>

\* a call of xclAllocDeviceBuffer2
DevAlloc ==
  /\ BagCardinality(live) < MaxLive
  /\ \E size \in Sizes, domain \in {XCL_MEM_DEVICE_RAM, XCL_MEM_HOST_RAM},
     flags \in 0..MaxBanks, noHostMemory \in {FALSE},
     reply \in {x \in Replies : x.filename = ""} :
    LET r == xclAllocDeviceBuffer2(mDDRMemoryManager, Sess, size, domain, flags,
                                   noHostMemory, reply)
    IN /\ mDDRMemoryManager' = r.mm
       /\ sock' = r.S.sock
       /\ binaryCounter' = r.S.binaryCounter
       /\ forked' = r.S.forked
       /\ channels' = r.S.channels
       /\ sent' = r.sent
       /\ ret' = [op |-> "xclAllocDeviceBuffer2",
                  arg |-> [size |-> size, domain |-> domain, flags |-> flags],
                  hasVal |-> TRUE, val |-> r.result]
       /\ live' = IF r.result # mNull
                  THEN live (+) SetToBag({[addr |-> r.result, size |-> r.size, bank |-> flags]})
                  ELSE live
  /\ UNCHANGED <<boState, config, qState, thState, cp>>

\* a call of xclFreeDeviceBuffer on an address a call of DevAlloc returned
DevFree ==
  \E r \in BagToSet(live) :
    LET f == xclFreeDeviceBuffer(mDDRMemoryManager, Sess, r.addr)
    IN /\ mDDRMemoryManager' = f.mm
       /\ sent' = f.sent
       /\ ret' = [op |-> "xclFreeDeviceBuffer", arg |-> [offset |-> r.addr],
                  hasVal |-> FALSE, val |-> 0]
       /\ live' = live (-) SetToBag({r})
       /\ UNCHANGED <<sock, binaryCounter, forked, channels, boState, config, qState, thState, cp>>

\* a call of xclGetDeviceInfo2
DevInfo ==
  /\ ret' = [op |-> "xclGetDeviceInfo2", arg |-> <<>>, hasVal |-> TRUE, val |-> 0,
             mDDRFreeSize |-> xclGetDeviceInfo2(mDDRMemoryManager)]
  /\ sent' = <<>>
  /\ UNCHANGED <<mDDRMemoryManager, sock, binaryCounter, forked, channels, boState, config, qState, thState, live, cp>>

NextAlloc == DevAlloc \/ DevFree \/ DevInfo

SpecAlloc == InitAlloc /\ [][NextAlloc]_vars

(* --------------------------- buffer objects --------------------------- *)
\* the bank index encoded in the allocation flags
xocl_bo_ddr_idx(flags) == flags.bank

\* the flags mark the buffer as having no host memory (p2p or host-only)
no_host_memory(flags) == flags.p2p

\* mXoclObjMap[h] = bo
PutBO(map, h, bo) == [x \in (DOMAIN map) \cup {h} |-> IF x = h THEN bo ELSE map[x]]

\* mXoclObjMap.erase(h)
EraseBO(map, h) == [x \in (DOMAIN map) \ {h} |-> map[x]]

\* CpuemShim::xclGetBoByHandle: TRUE when the registry has the handle
HasBO(map, h) == h \in DOMAIN map

\* CpuemShim::xoclCreateBo that registers the object whatever the allocator returned
xoclCreateBo_registersAlways(mms, S, map, cnt, info, reply) ==
  LET ddr0 == xocl_bo_ddr_idx(info.flags)
      ddr  == IF mDDRBankCount <= ddr0 THEN 0 ELSE ddr0
      xobj(a) == [handle |-> 0, flags |-> info.flags, base |-> a.result,
                  filename |-> a.sFileName, size |-> a.size, userptr |-> 0, buf |-> 0,
                  fd |-> -1]
      register(a) ==
        [result |-> IF a.result = mNull THEN mNull ELSE 0,
         handle |-> IF a.result = mNull THEN mNullBO ELSE cnt,
         mm |-> a.mm, S |-> a.S, sent |-> a.sent,
         map |-> PutBO(map, cnt, xobj(a)), cnt |-> cnt + 1, alloc |-> a.result]
  IN IF info.size = 0
     THEN [result |-> -1, handle |-> mNullBO, mm |-> mms, S |-> S, sent |-> <<>>,
           map |-> map, cnt |-> cnt, alloc |-> 0]
     ELSE register(xclAllocDeviceBuffer2(mms, S, info.size, XCL_MEM_DEVICE_RAM, ddr,
                                         no_host_memory(info.flags), reply))

\* CpuemShim::xoclCreateBo that hands out the counter without advancing it
xoclCreateBo_reusesHandle(mms, S, map, cnt, info, reply) ==
  LET ddr0 == xocl_bo_ddr_idx(info.flags)
      ddr  == IF mDDRBankCount <= ddr0 THEN 0 ELSE ddr0
      xobj(a) == [handle |-> 0, flags |-> info.flags, base |-> a.result,
                  filename |-> a.sFileName, size |-> a.size, userptr |-> 0, buf |-> 0,
                  fd |-> -1]
      register(a) ==
        IF a.result = mNull
        THEN [result |-> mNull, handle |-> mNullBO, mm |-> a.mm, S |-> a.S, sent |-> a.sent,
              map |-> map, cnt |-> cnt, alloc |-> mNull]
        ELSE [result |-> 0, handle |-> cnt, mm |-> a.mm, S |-> a.S, sent |-> a.sent,
              map |-> PutBO(map, cnt, xobj(a)), cnt |-> cnt, alloc |-> a.result]
  IN IF info.size = 0
     THEN [result |-> -1, handle |-> mNullBO, mm |-> mms, S |-> S, sent |-> <<>>,
           map |-> map, cnt |-> cnt, alloc |-> 0]
     ELSE register(xclAllocDeviceBuffer2(mms, S, info.size, XCL_MEM_DEVICE_RAM, ddr,
                                         no_host_memory(info.flags), reply))

\* CpuemShim::xoclCreateBo that lets a zero size through to the allocator
xoclCreateBo_acceptsZero(mms, S, map, cnt, info, reply) ==
  LET ddr0 == xocl_bo_ddr_idx(info.flags)
      ddr  == IF mDDRBankCount <= ddr0 THEN 0 ELSE ddr0
      xobj(a) == [handle |-> 0, flags |-> info.flags, base |-> a.result,
                  filename |-> a.sFileName, size |-> a.size, userptr |-> 0, buf |-> 0,
                  fd |-> -1]
      register(a) ==
        IF a.result = mNull
        THEN [result |-> mNull, handle |-> mNullBO, mm |-> a.mm, S |-> a.S, sent |-> a.sent,
              map |-> map, cnt |-> cnt, alloc |-> mNull]
        ELSE [result |-> 0, handle |-> cnt, mm |-> a.mm, S |-> a.S, sent |-> a.sent,
              map |-> PutBO(map, cnt, xobj(a)), cnt |-> cnt + 1, alloc |-> a.result]
  IN register(xclAllocDeviceBuffer2(mms, S, info.size, XCL_MEM_DEVICE_RAM, ddr,
                                    no_host_memory(info.flags), reply))

\* CpuemShim::xoclCreateBo(info): info.handle is set and the object registered
\* under mBufferCount++, unless the size is zero or the allocation returned mNull;
\* alloc is what xclAllocDeviceBuffer2 returned
xoclCreateBo(mms, S, map, cnt, info, reply) ==
  IF info.size = 0
  THEN [result |-> -1, handle |-> mNullBO, mm |-> mms, S |-> S, sent |-> <<>>,
        map |-> map, cnt |-> cnt, alloc |-> 0]
  ELSE LET ddr0 == xocl_bo_ddr_idx(info.flags)
           ddr  == IF mDDRBankCount <= ddr0 THEN 0 ELSE ddr0
           xobj(a) == [handle |-> 0, flags |-> info.flags, base |-> a.result,
                       filename |-> a.sFileName, size |-> a.size, userptr |-> 0, buf |-> 0,
                       fd |-> -1]
           register(a) ==
             IF a.result = mNull
             THEN [result |-> mNull, handle |-> mNullBO, mm |-> a.mm, S |-> a.S,
                   sent |-> a.sent, map |-> map, cnt |-> cnt, alloc |-> mNull]
             ELSE [result |-> 0, handle |-> cnt, mm |-> a.mm, S |-> a.S, sent |-> a.sent,
                   map |-> PutBO(map, cnt, xobj(a)), cnt |-> cnt + 1, alloc |-> a.result]
       IN register(xclAllocDeviceBuffer2(mms, S, info.size, XCL_MEM_DEVICE_RAM, ddr,
                                         no_host_memory(info.flags), reply))

\* CpuemShim::xclAllocBO(size, unused, flags): the handle, or mNullBO when
\* xoclCreateBo returned non-zero
xclAllocBO(mms, S, map, cnt, size, flags, reply) ==
  LET handleOf(c) == [c EXCEPT !.handle = IF c.result # 0 THEN mNullBO ELSE c.handle]
  IN handleOf(xoclCreateBo(mms, S, map, cnt, [size |-> size, flags |-> flags], reply))

\* CpuemShim::xclAllocUserPtrBO(userptr, size, flags)
xclAllocUserPtrBO(mms, S, map, cnt, userptr, size, flags, reply) ==
  LET withPtr(c) == [c EXCEPT !.handle = IF c.result # 0 THEN mNullBO ELSE c.handle,
                              !.map = IF HasBO(c.map, c.handle)
                                      THEN [c.map EXCEPT ![c.handle].userptr = userptr]
                                      ELSE c.map]
  IN withPtr(xoclCreateBo(mms, S, map, cnt, [size |-> size, flags |-> flags], reply))


(* ------------------------------ transfers ----------------------------- *)
\* the length of the next chunk: the rest when it is shorter than a message
ChunkSize(size, processed_bytes, messageSize) ==
  IF (size - processed_bytes) < messageSize THEN size - processed_bytes ELSE messageSize

\* the request of one chunk with the host pointer left at the start of the buffer
ChunkReq_sameHost(call, dev, host, processed_bytes, c_size, seek) ==
  [call |-> call, dev |-> dev + processed_bytes, host |-> host,
   size |-> c_size, seek |-> seek]

\* the request forwarded for one chunk; dev and host already include the offset
ChunkReq(call, dev, host, processed_bytes, c_size, seek) ==
  [call |-> call, dev |-> dev + processed_bytes, host |-> host + processed_bytes,
   size |-> c_size, seek |-> seek]

RECURSIVE CopyChunks(_, _, _, _, _, _, _)
\* the chunking loop, run to its end (it ends when messageSize > 0)
CopyChunks(call, dev, host, size, seek, messageSize, processed_bytes) ==
  IF ~(processed_bytes < size) THEN <<>>
  ELSE LET c_size == ChunkSize(size, processed_bytes, messageSize)
       IN <<ChunkReq(call, dev, host, processed_bytes, c_size, seek)>> \o
          CopyChunks(call, dev, host, size, seek, messageSize, processed_bytes + c_size)

\* CpuemShim::xclCopyBufferHost2Device(dest, src, size, seek)
xclCopyBufferHost2Device(S, dest, src, size, seek) ==
  LET L == EnsureSock(S)
  IN [ret |-> size, S |-> L.S,
      sent |-> L.sent \o CopyChunks("xclCopyBufferHost2Device", dest + seek, src + seek,
                                    size, seek, message_size, 0)]

\* CpuemShim::xclCopyBufferDevice2Host(dest, src, size, skip)
xclCopyBufferDevice2Host(S, dest, src, size, skip) ==
  LET L == EnsureSock(S)
  IN [ret |-> size, S |-> L.S,
      sent |-> L.sent \o CopyChunks("xclCopyBufferDevice2Host", src + skip, dest + skip,
                                    size, skip, message_size, 0)]

(* ------------------- export, import, map, sync, free ------------------ *)
\* the descriptor open() returns: the lowest one that is not open
NewFd(fds) == CHOOSE f \in FirstFd..(FirstFd + Cardinality(fds)) :
                /\ f \notin fds
                /\ \A g \in FirstFd..(f - 1) : g \in fds

\* the address of a fresh host mapping or buffer
NewMap(maps) == CHOOSE a \in 1..(Cardinality(maps) + 1) :
                  /\ a \notin maps
                  /\ \A b \in 1..(a - 1) : b \in maps

PutFd(map, fd, e) == [x \in (DOMAIN map) \cup {fd} |-> IF x = fd THEN e ELSE map[x]]

\* what open, mmap and ftruncate do in one call of xclExportBO or xclMapBO
FileOutcomes == {"ok", "open_fails", "mmap_fails", "ftruncate_fails"}

\* the open / mmap / ftruncate sequence shared by xclExportBO and xclMapBO:
\* ok is FALSE when the call gives up, else fd and data were recorded
FileBackedMap(fdmap, fds, maps, bo, outcome) ==
  LET fd   == NewFd(fds)
      data == IF outcome = "mmap_fails" THEN MAP_FAILED ELSE NewMap(maps)
  IN IF outcome = "open_fails" \/ outcome = "ftruncate_fails"
     THEN [ok |-> FALSE, fd |-> -1, data |-> 0, fdmap |-> fdmap, fds |-> fds, maps |-> maps]
     ELSE [ok |-> TRUE, fd |-> fd, data |-> data,
           fdmap |-> PutFd(fdmap, fd, [file |-> bo.filename, size |-> bo.size, addr |-> data]),
           fds |-> fds \cup {fd},
           maps |-> IF outcome = "mmap_fails" THEN maps ELSE maps \cup {data}]

\* CpuemShim::xclExportBO(boHandle)
xclExportBO(map, fdmap, fds, maps, boHandle, outcome) ==
  IF ~HasBO(map, boHandle) \/ map[boHandle].filename = ""
  THEN [ret |-> -1, fdmap |-> fdmap, fds |-> fds, maps |-> maps]
  ELSE LET f == FileBackedMap(fdmap, fds, maps, map[boHandle], outcome)
       IN [ret |-> IF f.ok THEN f.fd ELSE -1, fdmap |-> f.fdmap, fds |-> f.fds, maps |-> f.maps]

\* CpuemShim::xclMapBO(boHandle, write): 0 is the null pointer
xclMapBO(map, fdmap, fds, maps, boHandle, outcome) ==
  IF ~HasBO(map, boHandle)
  THEN [ret |-> 0, map |-> map, fdmap |-> fdmap, fds |-> fds, maps |-> maps]
  ELSE IF map[boHandle].filename # ""
  THEN LET f == FileBackedMap(fdmap, fds, maps, map[boHandle], outcome)
       IN [ret |-> IF f.ok THEN f.data ELSE 0,
           map |-> IF f.ok THEN [map EXCEPT ![boHandle].buf = f.data] ELSE map,
           fdmap |-> f.fdmap, fds |-> f.fds, maps |-> f.maps]
  ELSE LET pBuf == IF outcome = "ok" THEN NewMap(maps) ELSE 0
       IN [ret |-> pBuf, map |-> [map EXCEPT ![boHandle].buf = pBuf], fdmap |-> fdmap,
           fds |-> fds, maps |-> IF pBuf = 0 THEN maps ELSE maps \cup {pBuf}]

\* CpuemShim::xclImportBO(boGlobalHandle, flags): -1 is returned as an unsigned, mNullBO
xclImportBO(mms, S, map, cnt, fdmap, imported, boGlobalHandle, flags, reply, ack) ==
  IF boGlobalHandle \notin DOMAIN fdmap
  THEN [handle |-> mNullBO, mm |-> mms, S |-> S, sent |-> <<>>, map |-> map, cnt |-> cnt,
        imported |-> imported]
  ELSE LET e == fdmap[boGlobalHandle]
           import(c) ==
             IF ~HasBO(c.map, c.handle)
             THEN [handle |-> mNullBO, mm |-> c.mm, S |-> c.S, sent |-> c.sent, map |-> c.map,
                   cnt |-> c.cnt, imported |-> imported]
             ELSE [handle |-> IF ack THEN c.handle ELSE mNullBO,
                   mm |-> c.mm, S |-> c.S,
                   sent |-> c.sent \o <<[call |-> "xclImportBO", file |-> e.file,
                                         base |-> c.map[c.handle].base, size |-> e.size]>>,
                   map |-> [c.map EXCEPT ![c.handle].fd = boGlobalHandle],
                   cnt |-> c.cnt, imported |-> imported \cup {c.handle}]
       IN import(xclAllocBO(mms, S, map, cnt, e.size, flags, reply))

\* CpuemShim::xclSyncBO(boHandle, dir, size, offset)
xclSyncBO(map, S, boHandle, dir, size, offset) ==
  IF ~HasBO(map, boHandle)
  THEN [ret |-> -1, S |-> S, sent |-> <<>>]
  ELSE LET bo == map[boHandle]
           buffer == IF bo.userptr # 0 THEN bo.userptr ELSE bo.buf
           c == IF dir = XCL_BO_SYNC_BO_TO_DEVICE
                THEN xclCopyBufferHost2Device(S, bo.base, buffer, size, offset)
                ELSE xclCopyBufferDevice2Host(S, buffer, bo.base, size, offset)
       IN [ret |-> IF c.ret # size THEN EIO ELSE 0, S |-> c.S, sent |-> c.sent]

\* CpuemShim::xclFreeBO that frees the address of the handle's number when the
\* handle is not registered
xclFreeBO_freesUnknown(mms, S, map, boHandle) ==
  IF ~HasBO(map, boHandle)
  THEN LET f == xclFreeDeviceBuffer(mms, S, boHandle * PageSize)
       IN [mm |-> f.mm, sent |-> f.sent, map |-> map]
  ELSE LET f == xclFreeDeviceBuffer(mms, S, map[boHandle].base)
       IN [mm |-> f.mm, sent |-> f.sent, map |-> EraseBO(map, boHandle)]

\* CpuemShim::xclFreeBO(boHandle): returns nothing
xclFreeBO(mms, S, map, boHandle) ==
  IF ~HasBO(map, boHandle)
  THEN [mm |-> mms, sent |-> <<>>, map |-> map]
  ELSE LET f == xclFreeDeviceBuffer(mms, S, map[boHandle].base)
       IN [mm |-> f.mm, sent |-> f.sent, map |-> EraseBO(map, boHandle)]

\* CpuemShim::xclGetBOProperties(boHandle, properties)
xclGetBOProperties(map, boHandle) ==
  IF ~HasBO(map, boHandle)
  THEN [ret |-> -1, properties |-> <<>>]
  ELSE [ret |-> 0,
        properties |-> [handle |-> map[boHandle].handle, flags |-> map[boHandle].flags,
                        size |-> map[boHandle].size, paddr |-> map[boHandle].base]]


(* ----------------------- the buffer-object interface ------------------ *)
\* allocation flags: a bank index, in range or not, and the no-host-memory mark
Flags == [bank : 0..MaxBanks, p2p : {FALSE}]
\* the handles a caller passes: every handle that can exist, and mNullBO
Handles == {mNullBO} \cup 0..(MaxBOs - 1)
\* the sizes asked of xclAllocBO: zero, less than a page, more than a bank
SizesBO == {0, 1, BankSize + 1}
\* a caller-owned host pointer
UserPtrs == {99}

devState == <<mDDRMemoryManager, sock, binaryCounter, forked, channels>>

Created(c, op, arg) ==
  /\ mDDRMemoryManager' = c.mm
  /\ sock' = c.S.sock
  /\ binaryCounter' = c.S.binaryCounter
  /\ forked' = c.S.forked
  /\ channels' = c.S.channels
  /\ mXoclObjMap' = c.map
  /\ mBufferCount' = c.cnt
  /\ sent' = c.sent
  /\ ret' = [op |-> op, arg |-> arg, hasVal |-> TRUE, val |-> c.handle]
  /\ handed' = IF c.handle # mNullBO THEN Append(handed, c.handle) ELSE handed

\* a call of xclAllocBO
AllocBO ==
  /\ mBufferCount < MaxBOs
  /\ \E size \in SizesBO, flags \in Flags, reply \in Replies :
       LET c == xclAllocBO(mDDRMemoryManager, Sess, mXoclObjMap, mBufferCount,
                           size, flags, reply)
       IN Created(c, "xclAllocBO", [size |-> size, flags |-> flags, alloc |-> c.alloc])
  /\ UNCHANGED <<mFdToFileNameMap, mImportedBOs, openFds, hostMaps, config, qState, thState, live, cp>>

\* a call of xclAllocUserPtrBO
AllocUserPtrBO ==
  /\ mBufferCount < MaxBOs
  /\ \E userptr \in UserPtrs, size \in SizesBO, flags \in Flags, reply \in Replies :
       LET c == xclAllocUserPtrBO(mDDRMemoryManager, Sess, mXoclObjMap, mBufferCount,
                                  userptr, size, flags, reply)
       IN Created(c, "xclAllocUserPtrBO", [size |-> size, flags |-> flags, alloc |-> c.alloc])
  /\ UNCHANGED <<mFdToFileNameMap, mImportedBOs, openFds, hostMaps, config, qState, thState, live, cp>>

\* a call of xclImportBO
ImportBO ==
  /\ mBufferCount < MaxBOs
  /\ \E fd \in FirstFd..(FirstFd + MaxFds), flags \in Flags, reply \in Replies, ack \in BOOLEAN :
       LET c == xclImportBO(mDDRMemoryManager, Sess, mXoclObjMap, mBufferCount,
                            mFdToFileNameMap, mImportedBOs, fd, flags, reply, ack)
       IN /\ Created(c, "xclImportBO", [fd |-> fd, flags |-> flags])
          /\ mImportedBOs' = c.imported
  /\ UNCHANGED <<mFdToFileNameMap, openFds, hostMaps, config, qState, thState, live, cp>>

\* a call of xclExportBO
ExportBO ==
  /\ Cardinality(openFds) < MaxFds
  /\ Cardinality(hostMaps) < MaxFds
  /\ \E h \in Handles, outcome \in FileOutcomes :
       LET e == xclExportBO(mXoclObjMap, mFdToFileNameMap, openFds, hostMaps, h, outcome)
       IN /\ mFdToFileNameMap' = e.fdmap
          /\ openFds' = e.fds
          /\ hostMaps' = e.maps
          /\ ret' = [op |-> "xclExportBO", arg |-> [boHandle |-> h], hasVal |-> TRUE,
                     val |-> e.ret]
  /\ sent' = <<>>
  /\ UNCHANGED <<devState, mXoclObjMap, mBufferCount, mImportedBOs, handed, config, qState, thState, live, cp>>

\* a call of xclMapBO while fewer than n descriptors and n mappings exist
MapBOWithin(n) ==
  /\ Cardinality(openFds) < n
  /\ Cardinality(hostMaps) < n
  /\ \E h \in Handles, outcome \in FileOutcomes :
       LET m == xclMapBO(mXoclObjMap, mFdToFileNameMap, openFds, hostMaps, h, outcome)
       IN /\ mXoclObjMap' = m.map
          /\ mFdToFileNameMap' = m.fdmap
          /\ openFds' = m.fds
          /\ hostMaps' = m.maps
          /\ ret' = [op |-> "xclMapBO", arg |-> [boHandle |-> h], hasVal |-> TRUE,
                     val |-> m.ret]
  /\ sent' = <<>>
  /\ UNCHANGED <<devState, mBufferCount, mImportedBOs, handed, config, qState, thState, live, cp>>

\* a call of xclMapBO
MapBO == MapBOWithin(MaxFds)

\* a call of xclSyncBO; the whole buffer or nothing is synchronised
SyncBO ==
  /\ \E h \in Handles, dir \in {XCL_BO_SYNC_BO_TO_DEVICE, XCL_BO_SYNC_BO_FROM_DEVICE},
        size \in {0, PageSize} :
       LET y == xclSyncBO(mXoclObjMap, Sess, h, dir, size, 0)
       IN /\ sock' = y.S.sock
          /\ binaryCounter' = y.S.binaryCounter
          /\ forked' = y.S.forked
          /\ channels' = y.S.channels
          /\ sent' = y.sent
          /\ ret' = [op |-> "xclSyncBO", arg |-> [boHandle |-> h, dir |-> dir, size |-> size],
                     hasVal |-> TRUE, val |-> y.ret]
  /\ UNCHANGED <<mDDRMemoryManager, boState, config, qState, thState, live, cp>>

\* a call of xclFreeBO
FreeBO ==
  /\ \E h \in Handles :
       LET f == xclFreeBO(mDDRMemoryManager, Sess, mXoclObjMap, h)
       IN /\ mDDRMemoryManager' = f.mm
          /\ mXoclObjMap' = f.map
          /\ sent' = f.sent
          /\ ret' = [op |-> "xclFreeBO",
                     arg |-> [boHandle |-> h, present |-> HasBO(mXoclObjMap, h)],
                     hasVal |-> FALSE, val |-> 0]
  /\ UNCHANGED <<sock, binaryCounter, forked, channels, mBufferCount, mFdToFileNameMap, mImportedBOs,
                 openFds, hostMaps, handed, config, qState, thState, live, cp>>

\* a call of xclGetBOProperties
GetBOProperties ==
  /\ \E h \in Handles :
       LET g == xclGetBOProperties(mXoclObjMap, h)
       IN ret' = [op |-> "xclGetBOProperties", arg |-> [boHandle |-> h], hasVal |-> TRUE,
                  val |-> g.ret, properties |-> g.properties]
  /\ sent' = <<>>
  /\ UNCHANGED <<devState, boState, config, qState, thState, live, cp>>

\* the registry seen through allocation, mapping, synchronisation and release
Next ==
  \/ AllocBO
  \/ MapBO
  \/ SyncBO
  \/ FreeBO
  \/ GetBOProperties

Spec == InitAlloc /\ [][Next]_vars

\* every way of creating a BO, with export as the source of importable descriptors
NextShare ==
  \/ AllocBO
  \/ AllocUserPtrBO
  \/ ExportBO
  \/ ImportBO
  \/ FreeBO

SpecShare == InitAlloc /\ [][NextShare]_vars

\* a call of xclMapBO with room for a second mapping
Remap == MapBOWithin(MaxMaps)

\* buffers created, mapped any number of times and released
NextRemap ==
  \/ AllocBO
  \/ Remap
  \/ FreeBO

SpecRemap == InitAlloc /\ [][NextRemap]_vars

\* allocation and release under every pairing of the bank count of the device
\* info with the number of bank allocators
NextBanks ==
  \/ AllocBO
  \/ FreeBO
  \/ GetBOProperties

SpecBanks == Init /\ [][NextBanks]_vars

(* --------------------------- loading a binary ------------------------- *)
\* the containers handed to xclLoadXclBin: no container, the legacy magic, an
\* unrecognized magic, and xclbin2 containers without EMBEDDED_METADATA, with
\* it, and with AIE_METADATA
Headers == {"null", "xclbin0", "junk", "xclbin2_nometa", "xclbin2", "xclbin2_aie"}

\* what the file system, the container's tables and the peer do in one load
LoadOutcomes == {"ok", "xml_fails", "dltmp_fails", "conn_bad", "validate_fails",
                 "content_nack", "bitstream_nack"}

\* CpuemShim::isAieEnabled(header)
isAieEnabled(header) == header = "xclbin2_aie"

\* CpuemShim::dumpXML that takes an unrecognized magic for a container without XML
dumpXML_acceptsJunk(header, outcome) ==
  IF header \in {"null", "junk"} THEN 0
  ELSE IF header = "xclbin0" THEN -1
  ELSE IF header = "xclbin2_nometa" THEN -1
  ELSE IF outcome = "xml_fails" THEN -1
  ELSE 0

\* CpuemShim::dumpXML(header, fileLocation): 0 when there is no container or the
\* XML of an xclbin2 container was written to the binary directory
dumpXML(header, outcome) ==
  IF header = "null" THEN 0
  ELSE IF header = "xclbin0" THEN -1
  ELSE IF header \notin {"xclbin2", "xclbin2_nometa", "xclbin2_aie"} THEN -1
  ELSE IF header = "xclbin2_nometa" THEN -1
  ELSE IF outcome = "xml_fails" THEN -1
  ELSE 0

\* CpuemShim::resetProgram(): every exported file is unmapped and closed, and
\* the peer is told to close when the channel exists
resetProgram(S, fdmap, fds, maps) ==
  [fdmap |-> <<>>,
   fds   |-> fds \ DOMAIN fdmap,
   maps  |-> maps \ {fdmap[fd].addr : fd \in DOMAIN fdmap},
   sent  |-> IF S.sock THEN <<[call |-> "xclClose"]>> ELSE <<>>]

\* xclLoadBitstream_RPC_CALL and xclLoadXclbinContent_RPC_CALL: the value the
\* forwarding call leaves in the caller's ack, which is the peer's answer
xclLoadBitstream_RPC_CALL(outcome) == outcome # "bitstream_nack"
xclLoadXclbinContent_RPC_CALL(outcome) == outcome # "content_nack"

\* the end of a load that returns success whatever the peer answered
LoadBitstreamResult_ignoresAck(ack) == 0

\* the end of a load: ack is what the peer answered to xclLoadBitstream
LoadBitstreamResult(ack) == IF ~ack THEN -1 ELSE 0

\* uint64_t prev_instanceBaseAddr = ULLONG_MAX: the value that stands for no instance yet
ULLONG_MAX == -1

\* uint64_t instanceBaseAddr = 0xFFFF0000 & flow_id
instanceBaseAddr(flow_id) == ((flow_id \div 65536) % 65536) * 65536

\* xclSetupInstance_RPC_CALL(xclSetupInstance, prev_instanceBaseAddr, argFlowIdMap)
SetupReq(base, argFlowIdMap) ==
  [call |-> "xclSetupInstance", base |-> base, args |-> argFlowIdMap]

\* argFlowIdMap[arg_id] = mPair
SetArg(argFlowIdMap, arg_id, flow_id) ==
  [a \in DOMAIN argFlowIdMap \cup {arg_id} |->
     IF a = arg_id THEN flow_id ELSE argFlowIdMap[a]]

\* m_mem->m_mem_data[memdata_idx]: an index below zero passes the range test of
\* the loop and reads outside the topology, where anything may be found
ReadMemData(mem, memdata_idx, garbage) ==
  IF memdata_idx >= 0 THEN mem[memdata_idx + 1] ELSE garbage

\* if(prev_instanceBaseAddr != ULLONG_MAX && instanceBaseAddr != prev_instanceBaseAddr)
InstanceBoundary(prev, flow_id) ==
  prev # ULLONG_MAX /\ instanceBaseAddr(flow_id) # prev

RECURSIVE WalkConnectivity(_, _, _, _, _)
\* the loop over m_conn->m_connection from entry i on, w holding the locals
\* prev_instanceBaseAddr and argFlowIdMap, the requests sent so far and whether
\* the topology was read out of range; then the final xclSetupInstance
WalkConnectivity(mem, conn, i, w, garbage) ==
  IF i > Len(conn)
  THEN [w EXCEPT !.reqs = Append(@, SetupReq(w.prev, w.map))]
  ELSE IF conn[i].mem_data_index > Len(mem) - 1
  THEN [w EXCEPT !.ret = -1]
  ELSE WalkConnectivity(mem, conn, i + 1,
         [ret |-> 0,
          prev |-> instanceBaseAddr(ReadMemData(mem, conn[i].mem_data_index, garbage).flow_id),
          reqs |-> IF InstanceBoundary(w.prev, ReadMemData(mem, conn[i].mem_data_index, garbage).flow_id)
                   THEN Append(w.reqs, SetupReq(w.prev, w.map)) ELSE w.reqs,
          map |-> IF ReadMemData(mem, conn[i].mem_data_index, garbage).m_type = "MEM_STREAMING"
                  THEN SetArg(IF InstanceBoundary(w.prev,
                                         ReadMemData(mem, conn[i].mem_data_index, garbage).flow_id)
                              THEN <<>> ELSE w.map,
                              conn[i].arg_index,
                              ReadMemData(mem, conn[i].mem_data_index, garbage).flow_id)
                  ELSE IF InstanceBoundary(w.prev, ReadMemData(mem, conn[i].mem_data_index, garbage).flow_id)
                       THEN <<>> ELSE w.map,
          oob |-> w.oob \/ conn[i].mem_data_index < 0],
         garbage)

\* if (memTopology && connectvitybuf): the walk of the connectivity table
SetupInstances(tables, garbage) ==
  WalkConnectivity(tables.mem, tables.conn, 1,
                   [ret |-> 0, prev |-> ULLONG_MAX, reqs |-> <<>>, map |-> <<>>, oob |-> FALSE],
                   garbage)

\* the part of a load that follows the spawn, for a container that is not null:
\* reset, the temporary files, the instance set-up, the content (new flow only)
\* and the bitstream request; bitstream is "none" when that request was not sent
LoadBody(S, fdmap, fds, maps, outcome, newFlow, tables, garbage) ==
  LET r == resetProgram(S, fdmap, fds, maps)
      walk == SetupInstances(tables, garbage)
      out(val, reqs, bitstream) ==
        [ret |-> val, S |-> S, sent |-> r.sent \o reqs, fdmap |-> r.fdmap, fds |-> r.fds,
         maps |-> r.maps, launched |-> ~newFlow, bitstream |-> bitstream, oob |-> walk.oob]
      setup == walk.reqs
      content == IF newFlow THEN <<[call |-> "xclLoadXclbinContent"]>> ELSE <<>>
      load == <<[call |-> "xclLoadBitstream"]>>
  IN IF ~newFlow /\ outcome = "dltmp_fails"
     THEN [out(-1, <<>>, "none") EXCEPT !.oob = FALSE]
     ELSE IF walk.ret # 0 THEN out(walk.ret, setup, "none")
     ELSE IF newFlow /\ ~xclLoadXclbinContent_RPC_CALL(outcome)
     THEN out(-1, setup \o content, "none")
     ELSE out(LoadBitstreamResult(xclLoadBitstream_RPC_CALL(outcome)),
              setup \o content \o load,
              IF xclLoadBitstream_RPC_CALL(outcome) THEN "ack" ELSE "nack")

\* CpuemShim::xclLoadXclBinNewFlow(header): the directory is numbered and the
\* channel created when absent, without launchDeviceProcess and without a fork
xclLoadXclBinNewFlow(S, fdmap, fds, maps, header, outcome, tables, garbage) ==
  IF ~simDontRun /\ outcome = "validate_fails"
  THEN [ret |-> 1, S |-> S, sent |-> <<>>, fdmap |-> fdmap, fds |-> fds, maps |-> maps,
        launched |-> FALSE, bitstream |-> "none", oob |-> FALSE]
  ELSE LoadBody([S EXCEPT !.binaryCounter = @ + 1,
                          !.sock = TRUE,
                          !.channels = IF S.sock THEN @ ELSE @ + 1],
                fdmap, fds, maps, outcome, TRUE, tables, garbage)

\* CpuemShim::xclLoadXclBin(header)
xclLoadXclBin(S, fdmap, fds, maps, header, outcome, tables, garbage) ==
  IF isAieEnabled(header)
  THEN xclLoadXclBinNewFlow(S, fdmap, fds, maps, header, outcome, tables, garbage)
  ELSE IF dumpXML(header, outcome) # 0
  THEN [ret |-> dumpXML(header, outcome), S |-> S, sent |-> <<>>, fdmap |-> fdmap,
        fds |-> fds, maps |-> maps, launched |-> FALSE, bitstream |-> "none", oob |-> FALSE]
  ELSE IF header = "null"
  THEN [ret |-> 0, S |-> launchDeviceProcess(S), sent |-> <<>>, fdmap |-> fdmap,
        fds |-> fds, maps |-> maps, launched |-> TRUE, bitstream |-> "none", oob |-> FALSE]
  ELSE LoadBody(launchDeviceProcess(S), fdmap, fds, maps, outcome, FALSE, tables, garbage)

\* a call of xclLoadXclBin
LoadXclBin ==
  /\ binaryCounter < MaxLoads
  /\ \E header \in Headers, outcome \in LoadOutcomes :
       LET loaded(l) ==
             /\ sock' = l.S.sock
             /\ binaryCounter' = l.S.binaryCounter
             /\ forked' = l.S.forked
             /\ channels' = l.S.channels
             /\ mFdToFileNameMap' = l.fdmap
             /\ openFds' = l.fds
             /\ hostMaps' = l.maps
             /\ sent' = l.sent
             /\ ret' = [op |-> "xclLoadXclBin",
                        arg |-> [header |-> header, launched |-> l.launched,
                                 bitstream |-> l.bitstream, oob |-> l.oob,
                                 tables |-> "default"],
                        hasVal |-> TRUE, val |-> l.ret]
       IN loaded(xclLoadXclBin(Sess, mFdToFileNameMap, openFds, hostMaps, header, outcome,
                               IF outcome = "conn_bad" THEN BadTables ELSE DefaultTables,
                               DefaultTables.mem[1]))
  /\ UNCHANGED <<mDDRMemoryManager, mXoclObjMap, mBufferCount, mImportedBOs, handed,
                 config, qState, thState, live, cp>>

\* the session after a load that ended as l, and what the caller got
Loaded(l, header, tables) ==
  /\ sock' = l.S.sock
  /\ binaryCounter' = l.S.binaryCounter
  /\ forked' = l.S.forked
  /\ channels' = l.S.channels
  /\ mFdToFileNameMap' = l.fdmap
  /\ openFds' = l.fds
  /\ hostMaps' = l.maps
  /\ sent' = l.sent
  /\ ret' = [op |-> "xclLoadXclBin",
             arg |-> [header |-> header, launched |-> l.launched,
                      bitstream |-> l.bitstream, oob |-> l.oob, tables |-> tables],
             hasVal |-> TRUE, val |-> l.ret]
  /\ UNCHANGED <<mDDRMemoryManager, mXoclObjMap, mBufferCount, mImportedBOs, handed,
                 config, qState, thState, live, cp>>

\* what a read below the topology may find: anything, when the table has such an index
Garbage(tables) ==
  IF \E i \in DOMAIN tables.conn : tables.conn[i].mem_data_index < 0
  THEN MemData ELSE {DefaultTables.mem[1]}

\* a call of xclLoadXclBin with the container the caller holds, of either flow,
\* the peer acknowledging every request
LoadTables ==
  /\ binaryCounter < MaxLoads
  /\ \E header \in {"xclbin2", "xclbin2_aie"}, garbage \in Garbage(xclbin) :
       Loaded(xclLoadXclBin(Sess, mFdToFileNameMap, openFds, hostMaps, header, "ok",
                            xclbin, garbage), header, "held")

\* a call of xclLoadXclBin with the default container, which is well formed
LoadDefault ==
  /\ binaryCounter < MaxLoads
  /\ Loaded(xclLoadXclBin(Sess, mFdToFileNameMap, openFds, hostMaps, "xclbin2", "ok",
                          DefaultTables, DefaultTables.mem[1]), "xclbin2", "default")

\* loads of the held container and of the default one, in any order
NextConn ==
  \/ LoadTables
  \/ LoadDefault

\* the state after construction with one bank, the caller holding any container
InitConn ==
  /\ InitTables({DefaultMessageSize}, {1}, {FALSE}, AllTables)
  /\ Len(mDDRMemoryManager) = 1

SpecConn == InitConn /\ [][NextConn]_vars

\* binary loads among the calls that spawn lazily and that export files
NextLoad ==
  \/ LoadXclBin
  \/ AllocBO
  \/ ExportBO

SpecLoad == InitAlloc /\ [][NextLoad]_vars


(* ------------------- caller threads on one device --------------------- *)
\* the operations the threads call: one that takes mApiMtx and spawns lazily,
\* the two flows of the binary load, and the three queue operations
ThreadOps == {"xclAllocBO", "xclLoadXclBin", "xclLoadXclBinNewFlow",
              "xclWriteQueue", "xclReadQueue", "xclPollCompletion"}

\* CpuemShim::launchDeviceProcess, step by step
LaunchSteps == <<"lockLaunch", "count", "test", "fork", "create", "unlockLaunch">>

\* the two flows of the binary load
LoadOps == {"xclLoadXclBin", "xclLoadXclBinNewFlow"}

\* the requests of a load: xclSetupInstance, then xclLoadBitstream
LoadRequests == <<"send", "ack", "send", "ack">>

\* the steps of each operation, in program order: the locks it takes, its reads
\* and writes of the session, and the send and the answer of a forwarded request
Steps(op) ==
  CASE op = "xclAllocBO" -> <<"lockApi", "ensure", "send", "ack", "unlockApi">>
    [] op = "xclLoadXclBin" -> LaunchSteps \o LoadRequests
    [] op = "xclLoadXclBinNewFlow" -> <<"count", "test", "create">> \o LoadRequests
    [] op = "xclWriteQueue" -> <<"lockApi", "send", "ack", "unlockApi">>
    [] op = "xclReadQueue" -> <<"send", "ack">>
    [] op = "xclPollCompletion" -> <<"send", "ack">>

\* the thread is at the given step
At(t, step) == thread[t].pc = "busy" /\ Head(thread[t].steps) = step

\* the thread goes on with the given steps, and returns when none is left
Continue(t, steps) ==
  thread' = [thread EXCEPT ![t] = IF steps = <<>> THEN Idle
                                  ELSE [pc |-> "busy", op |-> @.op, steps |-> steps]]

\* a thread enters an operation; the queue operations are called on an open channel
ThCall(t) ==
  /\ thread[t].pc = "idle"
  /\ binaryCounter < MaxLoads
  /\ \E op \in ThreadOps :
       /\ op \in {"xclWriteQueue", "xclReadQueue", "xclPollCompletion"} => sock
       /\ thread' = [thread EXCEPT ![t] = [pc |-> "busy", op |-> op, steps |-> Steps(op)]]
  /\ UNCHANGED <<devState, boState, config, qState, mApiMtx, mProcessLaunchMtx, inflight,
                 live, cp, ret, sent>>

\* std::lock_guard<std::mutex> lk(mApiMtx)
ThLockApi(t) ==
  /\ At(t, "lockApi")
  /\ mApiMtx = NoThread
  /\ mApiMtx' = t
  /\ Continue(t, Tail(thread[t].steps))
  /\ UNCHANGED <<devState, boState, config, qState, mProcessLaunchMtx, inflight,
                 live, cp, ret, sent>>

\* the end of the scope of the lock_guard on mApiMtx
ThUnlockApi(t) ==
  /\ At(t, "unlockApi")
  /\ mApiMtx' = NoThread
  /\ Continue(t, Tail(thread[t].steps))
  /\ UNCHANGED <<devState, boState, config, qState, mProcessLaunchMtx, inflight,
                 live, cp, ret, sent>>

\* if(!sock) launchTempProcess(): the spawn and its xclLoadBitstream request
ThEnsure(t) ==
  /\ At(t, "ensure")
  /\ Continue(t, IF sock THEN Tail(thread[t].steps)
                 ELSE LaunchSteps \o <<"send", "ack">> \o Tail(thread[t].steps))
  /\ UNCHANGED <<devState, boState, config, qState, mApiMtx, mProcessLaunchMtx, inflight,
                 live, cp, ret, sent>>

\* std::lock_guard<std::mutex> lk(mProcessLaunchMtx)
ThLockLaunch(t) ==
  /\ At(t, "lockLaunch")
  /\ mProcessLaunchMtx = NoThread
  /\ mProcessLaunchMtx' = t
  /\ Continue(t, Tail(thread[t].steps))
  /\ UNCHANGED <<devState, boState, config, qState, mApiMtx, inflight, live, cp, ret, sent>>

\* the return of launchDeviceProcess releases mProcessLaunchMtx
ThUnlockLaunch(t) ==
  /\ At(t, "unlockLaunch")
  /\ mProcessLaunchMtx' = NoThread
  /\ Continue(t, Tail(thread[t].steps))
  /\ UNCHANGED <<devState, boState, config, qState, mApiMtx, inflight, live, cp, ret, sent>>

\* the binary directory is created and binaryCounter++
ThCount(t) ==
  /\ At(t, "count")
  /\ binaryCounter' = binaryCounter + 1
  /\ Continue(t, Tail(thread[t].steps))
  /\ UNCHANGED <<mDDRMemoryManager, sock, forked, channels, boState, config, qState,
                 mApiMtx, mProcessLaunchMtx, inflight, live, cp, ret, sent>>

RECURSIVE After(_, _)
\* the steps that follow the first occurrence of the given step
After(steps, step) ==
  IF Head(steps) = step THEN Tail(steps) ELSE After(Tail(steps), step)

\* if(sock) return in launchDeviceProcess, if(!sock) in xclLoadXclBinNewFlow:
\* the read of sock; the fork and the creation are skipped when it is set
ThTest(t) ==
  /\ At(t, "test")
  /\ Continue(t, IF sock THEN After(thread[t].steps, "create") ELSE Tail(thread[t].steps))
  /\ UNCHANGED <<devState, boState, config, qState, mApiMtx, mProcessLaunchMtx, inflight,
                 live, cp, ret, sent>>

\* pid_t pid = fork() in launchDeviceProcess
ThFork(t) ==
  /\ At(t, "fork")
  /\ forked' = IF simDontRun THEN forked ELSE forked + 1
  /\ Continue(t, Tail(thread[t].steps))
  /\ UNCHANGED <<mDDRMemoryManager, sock, binaryCounter, channels, boState, config, qState,
                 mApiMtx, mProcessLaunchMtx, inflight, live, cp, ret, sent>>

\* sock = new unix_socket
ThCreate(t) ==
  /\ At(t, "create")
  /\ sock' = TRUE
  /\ channels' = channels + 1
  /\ Continue(t, Tail(thread[t].steps))
  /\ UNCHANGED <<mDDRMemoryManager, binaryCounter, forked, boState, config, qState,
                 mApiMtx, mProcessLaunchMtx, inflight, live, cp, ret, sent>>

\* the first half of a forwarded call: the request is written to the channel
ThSend(t) ==
  /\ At(t, "send")
  /\ inflight' = inflight \cup {t}
  /\ Continue(t, Tail(thread[t].steps))
  /\ UNCHANGED <<devState, boState, config, qState, mApiMtx, mProcessLaunchMtx,
                 live, cp, ret, sent>>

\* the second half of a forwarded call: the answer is read from the channel
ThAck(t) ==
  /\ At(t, "ack")
  /\ inflight' = inflight \ {t}
  /\ Continue(t, Tail(thread[t].steps))
  /\ UNCHANGED <<devState, boState, config, qState, mApiMtx, mProcessLaunchMtx,
                 live, cp, ret, sent>>

NextThreads ==
  \E t \in Threads :
    \/ ThCall(t)
    \/ ThLockApi(t)
    \/ ThUnlockApi(t)
    \/ ThEnsure(t)
    \/ ThLockLaunch(t)
    \/ ThUnlockLaunch(t)
    \/ ThCount(t)
    \/ ThTest(t)
    \/ ThFork(t)
    \/ ThCreate(t)
    \/ ThSend(t)
    \/ ThAck(t)

SpecThreads == InitAlloc /\ [][NextThreads]_vars

(* ------------------- the locks along the call paths ------------------- *)
\* the operations that reach a lock through another member function:
\* xclImportBO calls xclAllocBO, xclFreeBO calls xclFreeDeviceBuffer, xclSyncBO
\* calls a copy primitive and with it the lazy spawn, the load calls
\* launchDeviceProcess
LockOps == {"xclImportBO", "xclFreeBO", "xclSyncBO", "xclLoadXclBin"}

\* the steps of xclImportBO if it took mApiMtx itself before calling xclAllocBO
LockSteps_importLocks(op) ==
  CASE op = "xclImportBO" -> <<"lockApi", "lockApi", "ensure", "send", "ack", "unlockApi",
                               "send", "ack", "unlockApi">>
    [] op = "xclFreeBO" -> <<"lockApi", "free", "unlockApi">>
    [] op = "xclSyncBO" -> <<"lockApi", "ensure", "send", "ack", "unlockApi">>
    [] op = "xclLoadXclBin" -> LaunchSteps \o LoadRequests

\* the steps of these operations, in program order. xclImportBO holds no lock
\* of its own: the steps of xclAllocBO, then its own request; xclFreeBO and
\* xclSyncBO hold mApiMtx from their first line to their return
LockSteps(op) ==
  CASE op = "xclImportBO" -> Steps("xclAllocBO") \o <<"send", "ack">>
    [] op = "xclFreeBO" -> <<"lockApi", "free", "unlockApi">>
    [] op = "xclSyncBO" -> <<"lockApi", "ensure", "send", "ack", "unlockApi">>
    [] op = "xclLoadXclBin" -> LaunchSteps \o LoadRequests

\* a thread enters one of these operations
ThEnter(t) ==
  /\ thread[t].pc = "idle"
  /\ binaryCounter < MaxLoads
  /\ \E op \in LockOps :
       thread' = [thread EXCEPT ![t] = [pc |-> "busy", op |-> op, steps |-> LockSteps(op)]]
  /\ UNCHANGED <<devState, boState, config, qState, mApiMtx, mProcessLaunchMtx, inflight,
                 live, cp, ret, sent>>

\* xclFreeDeviceBuffer: the banks are walked, and the request is forwarded if(sock)
ThFree(t) ==
  /\ At(t, "free")
  /\ Continue(t, IF sock THEN <<"send", "ack">> \o Tail(thread[t].steps)
                 ELSE Tail(thread[t].steps))
  /\ UNCHANGED <<devState, boState, config, qState, mApiMtx, mProcessLaunchMtx, inflight,
                 live, cp, ret, sent>>

NextLocks ==
  \E t \in Threads :
    \/ ThEnter(t)
    \/ ThLockApi(t)
    \/ ThUnlockApi(t)
    \/ ThEnsure(t)
    \/ ThFree(t)
    \/ ThLockLaunch(t)
    \/ ThUnlockLaunch(t)
    \/ ThCount(t)
    \/ ThTest(t)
    \/ ThFork(t)
    \/ ThCreate(t)
    \/ ThSend(t)
    \/ ThAck(t)

SpecLocks == InitAlloc /\ [][NextLocks]_vars


(* ------------------------ the streaming queues ------------------------ *)
\* the caller context (priv_data) of a request: every request is given a
\* context of its own, so that a completion names the request it belongs to
PrivOf(counter) == <<"priv_data", counter>>

\* the requests forwarded for the buffers of one submit, one per buffer
QueueReqs(call, n) == [i \in 1..n |-> [call |-> call, buf |-> i]]

\* mReqList.push_back(std::make_tuple(mReqCounter, priv_data, vaLenMap)) when
\* the request is flagged XCL_QUEUE_REQ_NONBLOCKING
PushReq(list, counter, priv, nonBlocking) ==
  IF nonBlocking THEN Append(list, [id |-> counter, priv |-> priv]) ELSE list

\* the history of the non-blocking requests issued
LogIssue(log, counter, priv, nonBlocking) ==
  IF nonBlocking THEN [log EXCEPT !.issued = @ \cup {[id |-> counter, priv |-> priv]}]
  ELSE log

\* a call of xclWriteQueue: the record, then one request per buffer, each
\* buffer of one byte written whole
WriteQueue ==
  /\ mReqCounter < MaxReqs
  /\ poll.pc = "idle"
  /\ \E nonBlocking \in BOOLEAN, priv \in {PrivOf(mReqCounter)}, buf_num \in 1..MaxBufs :
       /\ mReqList' = PushReq(mReqList, mReqCounter, priv, nonBlocking)
       /\ qlog' = LogIssue(qlog, mReqCounter, priv, nonBlocking)
       /\ sent' = QueueReqs("xclWriteQueue", buf_num)
       /\ ret' = [op |-> "xclWriteQueue",
                  arg |-> [nonBlocking |-> nonBlocking],
                  hasVal |-> TRUE, val |-> buf_num]
  /\ mReqCounter' = mReqCounter + 1
  /\ UNCHANGED <<devState, boState, config, poll, completed, thState, live, cp>>

\* a call of xclReadQueue: the record, then one request per buffer; a blocking
\* read repeats each request until the peer returns data, a non-blocking one
\* takes what the peer has
ReadQueue ==
  /\ mReqCounter < MaxReqs
  /\ poll.pc = "idle"
  /\ \E nonBlocking \in BOOLEAN, priv \in {PrivOf(mReqCounter)}, buf_num \in 1..MaxBufs :
       /\ mReqList' = PushReq(mReqList, mReqCounter, priv, nonBlocking)
       /\ qlog' = LogIssue(qlog, mReqCounter, priv, nonBlocking)
       /\ sent' = QueueReqs("xclReadQueue", buf_num)
       /\ \E fullSize \in 0..buf_num :
            /\ ~nonBlocking => fullSize = buf_num
            /\ ret' = [op |-> "xclReadQueue",
                       arg |-> [nonBlocking |-> nonBlocking],
                       hasVal |-> TRUE, val |-> fullSize]
  /\ mReqCounter' = mReqCounter + 1
  /\ UNCHANGED <<devState, boState, config, poll, completed, thState, live, cp>>

\* the peer finishes one outstanding non-blocking request
PeerCompletes ==
  /\ \E r \in qlog.issued :
       /\ r.id \notin completed
       /\ completed' = completed \cup {r.id}
  /\ UNCHANGED <<devState, boState, config, mReqList, mReqCounter, poll, qlog, thState,
                 live, cp, ret, sent>>

RECURSIVE ScanList(_, _, _)
\* one pass of the inner loop of xclPollCompletion over mReqList: the records
\* the peer reports bytes for are written to comps[*actual], counted and erased
ScanList(list, done, acc) ==
  IF list = <<>> THEN acc
  ELSE ScanList(Tail(list), done,
                IF Head(list).id \in done
                THEN [acc EXCEPT !.comps = Append(@, Head(list))]
                ELSE [acc EXCEPT !.kept = Append(@, Head(list))])

\* the completions of a pass that fit the caller's array of max_compl entries,
\* and the ones written past its end
InArray(p, comps) == SubSeq(comps, 1, IF p.max < Len(comps) THEN p.max ELSE Len(comps))
PastArray(p, comps) == {comps[i] : i \in (p.max + 1)..Len(comps)}
\* the bag of the entries a pass added to the caller's array
NewInArray(p, comps) ==
  LET new == {i \in (Len(p.comps) + 1)..Len(comps) : i <= p.max}
  IN [r \in {comps[i] : i \in new} |-> Cardinality({i \in new : comps[i] = r})]

\* the state after one pass
Pass(p) ==
  LET after(a) ==
        /\ mReqList' = a.kept
        /\ poll' = [p EXCEPT !.comps = a.comps, !.actual = Len(a.comps)]
        /\ qlog' = [qlog EXCEPT
                      !.reported = @ (+) NewInArray(p, a.comps),
                      !.lost = @ \cup PastArray(p, a.comps)]
        /\ sent' = [i \in 1..Len(mReqList) |->
                      [call |-> "xclPollCompletion", id |-> mReqList[i].id]]
  IN after(ScanList(mReqList, completed, [kept |-> <<>>, comps |-> p.comps]))

\* the entry of xclPollCompletion: *actual = 0, and the first pass when
\* min_compl is positive
PollBegin ==
  /\ poll.pc = "idle"
  /\ \E min_compl \in 0..MaxCompl, max_compl \in 1..MaxCompl, timeout \in 0..MaxTimeout :
       /\ min_compl <= max_compl
       /\ LET p == [pc |-> "polling", min |-> min_compl, max |-> max_compl,
                    timeout |-> timeout, actual |-> 0, comps |-> <<>>,
                    ready |-> Cardinality({i \in DOMAIN mReqList :
                                            mReqList[i].id \in completed}),
                    pending |-> Cardinality({i \in DOMAIN mReqList :
                                              mReqList[i].id \notin completed})]
          IN IF 0 < min_compl THEN Pass(p)
             ELSE poll' = p /\ UNCHANGED <<mReqList, qlog, sent>>
  /\ ret' = [op |-> "xclPollCompletion", hasVal |-> FALSE, val |-> 0]
  /\ UNCHANGED <<devState, boState, config, mReqCounter, completed, thState, live, cp>>

\* a further pass of while(*actual < min_compl)
PollPass ==
  /\ poll.pc = "polling"
  /\ poll.actual < poll.min
  /\ Pass(poll)
  /\ UNCHANGED <<devState, boState, config, mReqCounter, completed, thState, live, cp, ret>>

\* the value the caller finds in *actual: the count, unless entries were
\* written past the end of comps, which may have overwritten anything
PollResults(p) == IF p.actual > p.max THEN 0..MaxReqs ELSE {p.actual}

\* return (*actual), once the loop condition fails
PollReturn ==
  /\ poll.pc = "polling"
  /\ ~(poll.actual < poll.min)
  /\ \E val \in PollResults(poll) :
       ret' = [op |-> "xclPollCompletion",
               arg |-> [min |-> poll.min, max |-> poll.max, written |-> Len(poll.comps),
                        ready |-> poll.ready, pending |-> poll.pending],
               hasVal |-> TRUE, val |-> val]
  /\ poll' = NoPoll
  /\ UNCHANGED <<devState, boState, config, mReqList, mReqCounter, completed, qlog,
                 thState, live, cp, sent>>

NextPoll ==
  \/ WriteQueue
  \/ ReadQueue
  \/ PeerCompletes
  \/ PollBegin
  \/ PollPass
  \/ PollReturn

\* the queues are used on an open channel: the state after construction with one
\* bank and one load of no container, which spawns the peer
InitPoll ==
  /\ mDDRBankCount = 1
  /\ simDontRun = FALSE
  /\ message_size = DefaultMessageSize
  /\ mDDRMemoryManager = initMemoryManager(1, 0)
  /\ sock = TRUE
  /\ binaryCounter = 1
  /\ forked = 1
  /\ channels = 1
  /\ mXoclObjMap = <<>>
  /\ mBufferCount = 0
  /\ mFdToFileNameMap = <<>>
  /\ mImportedBOs = {}
  /\ openFds = {}
  /\ hostMaps = {}
  /\ ret = [op |-> "xclLoadXclBin",
            arg |-> [header |-> "null", launched |-> TRUE, bitstream |-> "none",
                     oob |-> FALSE, tables |-> "default"],
            hasVal |-> TRUE, val |-> 0]
  /\ sent = <<>>
  /\ live = EmptyBag
  /\ handed = <<>>
  /\ cp = NoCopy
  /\ mReqList = <<>>
  /\ mReqCounter = 0
  /\ poll = NoPoll
  /\ thread = [t \in Threads |-> Idle]
  /\ mApiMtx = NoThread
  /\ mProcessLaunchMtx = NoThread
  /\ inflight = {}
  /\ completed = {}
  /\ qlog = NoLog
  /\ xclbin = DefaultTables
  /\ ProcInit({FALSE})

SpecPoll == InitPoll /\ [][NextPoll]_vars

\* the caller's thread keeps running: a pass or a return that can be taken is taken
SpecPollLive == SpecPoll /\ WF_vars(PollPass) /\ WF_vars(PollReturn)


(* ------------------- the copy primitives, chunk by chunk -------------- *)
\* values of SW_EMU_PACKET_SIZE, as strtoll reads them, and the default
MessageSizes == {0, 1, 2, 3, DefaultMessageSize}

\* the state after construction with SW_EMU_PACKET_SIZE set or not, one bank
InitCopy ==
  /\ InitWith(MessageSizes, {1}, {FALSE})
  /\ Len(mDDRMemoryManager) = 1

CopyCalls == {"xclCopyBufferHost2Device", "xclCopyBufferDevice2Host"}

\* entry of xclCopyBufferHost2Device / xclCopyBufferDevice2Host: the lazy spawn,
\* the offset applied to both sides, the locals of the loop initialised
CopyBegin ==
  /\ cp.pc \in {"idle", "done"}
  /\ \E call \in CopyCalls, dev \in {0, PageSize}, host \in UserPtrs,
        size \in 0..MaxCopySize, seek \in {0, 1} :
       LET L == EnsureSock(Sess)
       IN /\ sock' = L.S.sock
          /\ binaryCounter' = L.S.binaryCounter
          /\ forked' = L.S.forked
          /\ channels' = L.S.channels
          /\ sent' = L.sent
          /\ cp' = [pc |-> "loop", call |-> call, dev |-> dev, host |-> host, size |-> size,
                    seek |-> seek, messageSize |-> message_size, c_size |-> message_size,
                    processed_bytes |-> 0, chunks |-> <<>>, acks |-> <<>>]
          /\ ret' = [op |-> call,
                     arg |-> [dev |-> dev, host |-> host, size |-> size, seek |-> seek],
                     hasVal |-> FALSE, val |-> 0]
  /\ UNCHANGED <<mDDRMemoryManager, boState, config, qState, thState, live>>

\* one turn of the while loop: the chunk is sized, forwarded and counted; the
\* peer serves the chunk or fails it (peerOk), which the loop does not look at
CopyChunk ==
  /\ cp.pc = "loop"
  /\ cp.processed_bytes < cp.size
  /\ Len(cp.chunks) < MaxChunks
  /\ \E peerOk \in BOOLEAN :
       LET c_size == ChunkSize(cp.size, cp.processed_bytes, cp.messageSize)
           req == ChunkReq(cp.call, cp.dev + cp.seek, cp.host + cp.seek,
                           cp.processed_bytes, c_size, cp.seek)
       IN /\ cp' = [cp EXCEPT !.c_size = c_size,
                              !.processed_bytes = @ + c_size,
                              !.chunks = Append(@, req),
                              !.acks = Append(@, peerOk)]
          /\ sent' = Append(sent, req)
  /\ UNCHANGED <<devState, boState, config, qState, thState, ret, live>>

\* the loop condition fails: the call returns size
CopyReturn ==
  /\ cp.pc = "loop"
  /\ ~(cp.processed_bytes < cp.size)
  /\ cp' = [cp EXCEPT !.pc = "done"]
  /\ ret' = [ret EXCEPT !.hasVal = TRUE, !.val = cp.size]
  /\ UNCHANGED <<devState, boState, config, qState, thState, sent, live>>

NextCopy == CopyBegin \/ CopyChunk \/ CopyReturn

SpecCopy == InitCopy /\ [][NextCopy]_vars

(* ---------------- the chunking loop with its 32-bit counters ---------- *)
\* In this part sizes are counted in units of DefaultMessageSize (2^23) bytes,
\* and every size is a whole number of units, so that sums and differences of
\* sizes are sums and differences of unit counts.
\* 2^32 bytes in units: unsigned int arithmetic is arithmetic modulo UIntRange
UIntRange == 512

\* the conversion of a unit count to unsigned int
UInt(x) == x % UIntRange

\* SW_EMU_PACKET_SIZE as strtoll reads it, in units: 0, the default, 3 units, 2^32
PacketSizes == {0, 1, 3, UIntRange}

\* the sizes of the followed transfers, in units: nothing, less and more than
\* a message, the largest sizes below 2^32, 2^32 and more
WideSizes == {0, 1, 2, UIntRange - 2, UIntRange - 1, UIntRange, UIntRange + 1}

\* the constructor: unsigned int messageSize = strtoll(pack_size, nullptr, 0)
InitWide ==
  /\ InitWith({UInt(p) : p \in PacketSizes}, {1}, {FALSE})
  /\ Len(mDDRMemoryManager) = 1

\* entry of a copy primitive, the locals of the loop initialised
WideBegin ==
  /\ cp.pc \in {"idle", "done"}
  /\ \E call \in CopyCalls, size \in WideSizes :
       LET L == EnsureSock(Sess)
       IN /\ sock' = L.S.sock
          /\ binaryCounter' = L.S.binaryCounter
          /\ forked' = L.S.forked
          /\ channels' = L.S.channels
          /\ sent' = L.sent
          /\ cp' = [pc |-> "loop", call |-> call, size |-> size,
                    messageSize |-> message_size, c_size |-> message_size,
                    processed_bytes |-> 0]
          /\ ret' = [op |-> call, arg |-> [size |-> size], hasVal |-> FALSE, val |-> 0]
  /\ UNCHANGED <<mDDRMemoryManager, boState, config, qState, thState, live>>

\* one turn of the while loop; sent is the request of this turn. The comparison
\* and the difference are made in size_t, c_size and processed_bytes are
\* unsigned int
WideTurn ==
  /\ cp.pc = "loop"
  /\ cp.processed_bytes < cp.size
  /\ LET c_size == UInt(ChunkSize(cp.size, cp.processed_bytes, cp.messageSize))
     IN /\ cp' = [cp EXCEPT !.c_size = c_size,
                            !.processed_bytes = UInt(@ + c_size)]
        /\ sent' = <<ChunkReq(cp.call, 0, 0, cp.processed_bytes, c_size, 0)>>
  /\ UNCHANGED <<devState, boState, config, qState, thState, ret, live>>

\* the loop condition fails: the call returns size
WideReturn ==
  /\ cp.pc = "loop"
  /\ ~(cp.processed_bytes < cp.size)
  /\ cp' = [cp EXCEPT !.pc = "done"]
  /\ sent' = <<>>
  /\ ret' = [ret EXCEPT !.hasVal = TRUE, !.val = cp.size]
  /\ UNCHANGED <<devState, boState, config, qState, thState, live>>

NextWide == WideBegin \/ WideTurn \/ WideReturn

SpecWide == InitWide /\ [][NextWide]_vars

\* the calling thread keeps running: a turn or a return that can be taken is taken
SpecWideLive == SpecWide /\ WF_vars(WideTurn) /\ WF_vars(WideReturn)


(* ------------------- a write followed by a read of it ----------------- *)
\* the values of a byte, and the content of a byte nothing was written to
Bytes == {0, 1}
Unset == -1
\* the host buffer that is written from and the host buffer that is read into
WBase == 99
RBase == 50
\* the destination addresses of the device
DevBases == {0, 1}
DevAddrs == 0..(MaxCopySize + 2)

\* the peer serves one xclCopyBufferHost2Device request: the bytes at the
\* forwarded host pointer are stored at the forwarded device address
StoreChunk(mem, hostmem, q) ==
  [a \in DOMAIN mem |->
     IF q.dev <= a /\ a < q.dev + q.size THEN hostmem[q.host + (a - q.dev)] ELSE mem[a]]

\* the peer serves one xclCopyBufferDevice2Host request: the bytes at the
\* forwarded device address are returned into the forwarded host pointer
LoadChunk(hostmem, mem, q) ==
  [h \in DOMAIN hostmem |->
     IF q.host <= h /\ h < q.host + q.size THEN mem[q.dev + (h - q.host)] ELSE hostmem[h]]

RECURSIVE PeerStore(_, _, _)
\* the peer serves the requests of a call in the order they were forwarded
PeerStore(mem, hostmem, reqs) ==
  IF reqs = <<>> THEN mem
  ELSE PeerStore(IF Head(reqs).call = "xclCopyBufferHost2Device"
                 THEN StoreChunk(mem, hostmem, Head(reqs)) ELSE mem,
                 hostmem, Tail(reqs))

RECURSIVE PeerLoad(_, _, _)
PeerLoad(hostmem, mem, reqs) ==
  IF reqs = <<>> THEN hostmem
  ELSE PeerLoad(IF Head(reqs).call = "xclCopyBufferDevice2Host"
                THEN LoadChunk(hostmem, mem, Head(reqs)) ELSE hostmem,
                mem, Tail(reqs))

\* the state after construction with a message size of at least one byte
InitRoundTrip ==
  /\ InitWith(MessageSizes \ {0}, {1}, {FALSE})
  /\ Len(mDDRMemoryManager) = 1

\* a call of xclCopyBufferHost2Device(dest, src, size, seek), served by the peer
RoundTripWrite ==
  /\ cp.pc = "idle"
  /\ \E dest \in DevBases, size \in 0..MaxCopySize, seek \in {0, 1} :
     \E data \in [(WBase + seek)..(WBase + seek + size - 1) -> Bytes] :
       LET written(w) ==
             /\ sock' = w.S.sock
             /\ binaryCounter' = w.S.binaryCounter
             /\ forked' = w.S.forked
             /\ channels' = w.S.channels
             /\ sent' = w.sent
             /\ cp' = [pc |-> "written", dest |-> dest, size |-> size, seek |-> seek,
                       src |-> data, dst |-> <<>>,
                       mem |-> PeerStore([a \in DevAddrs |-> Unset], data, w.sent)]
             /\ ret' = [op |-> "xclCopyBufferHost2Device",
                        arg |-> [dev |-> dest, host |-> WBase, size |-> size, seek |-> seek],
                        hasVal |-> TRUE, val |-> w.ret]
       IN written(xclCopyBufferHost2Device(Sess, dest, WBase, size, seek))
  /\ UNCHANGED <<mDDRMemoryManager, boState, config, qState, thState, live>>

\* a call of xclCopyBufferDevice2Host(dest, src, size, skip) with the address,
\* the size and the offset of the write, into a buffer of its own
RoundTripRead ==
  /\ cp.pc = "written"
  /\ LET fresh == [h \in (RBase + cp.seek)..(RBase + cp.seek + cp.size - 1) |-> Unset]
         read(r) ==
           /\ sock' = r.S.sock
           /\ binaryCounter' = r.S.binaryCounter
           /\ forked' = r.S.forked
           /\ channels' = r.S.channels
           /\ sent' = r.sent
           /\ cp' = [cp EXCEPT !.pc = "read", !.dst = PeerLoad(fresh, cp.mem, r.sent)]
           /\ ret' = [op |-> "xclCopyBufferDevice2Host",
                      arg |-> [dev |-> cp.dest, host |-> RBase, size |-> cp.size,
                               seek |-> cp.seek],
                      hasVal |-> TRUE, val |-> r.ret]
     IN read(xclCopyBufferDevice2Host(Sess, RBase, cp.dest, cp.size, cp.seek))
  /\ UNCHANGED <<mDDRMemoryManager, boState, config, qState, thState, live>>

NextRoundTrip == RoundTripWrite \/ RoundTripRead

SpecRoundTrip == InitRoundTrip /\ [][NextRoundTrip]_vars


(* ------------------------- the host process --------------------------- *)
\* the variables of the single-instance view, which the process view leaves alone
oneDevice == <<mDDRBankCount, simDontRun, message_size, xclbin, mDDRMemoryManager, sock,
               binaryCounter, forked, channels, mXoclObjMap, mImportedBOs, handed, live,
               cp, qState, thState>>

\* the signals sigaction installs sigHandler for
Signals == {"SIGSEGV", "SIGFPE", "SIGABRT", "SIGUSR1", "SIGCHLD"}
\* si_code of a SIGCHLD: the child exited, was killed, or dumped core
SiCodes == {"CLD_EXITED", "CLD_KILLED", "CLD_DUMPED"}

\* CpuemShim::saveDeviceProcessOutput of device d: nothing without a channel, else
\* the output of binary_<i> is copied for i = binaryCounter-1 down to 0
saveDeviceProcessOutput(d, S) ==
  IF ~S.sock THEN <<>>
  ELSE [k \in 1..S.binaryCounter |->
          [step |-> "save", dev |-> d, binary |-> S.binaryCounter - k]]

RECURSIVE SaveFrom(_, _)
\* the loop of saveDeviceProcessOutputs from index d on, in the order of the map
SaveFrom(devs, d) ==
  IF d \notin DOMAIN devs THEN <<>>
  ELSE saveDeviceProcessOutput(d, devs[d].S) \o SaveFrom(devs, d + 1)

\* saveDeviceProcessOutputs(): every registered device, in the order of its index
saveDeviceProcessOutputs(devs) == SaveFrom(devs, 0)

\* the host after exit(1), and after the default action of a SIGTERM it sent itself
Exited == [st |-> "terminated", by |-> "exit(1)"]
Terminated == [st |-> "terminated", by |-> "SIGTERM"]

\* the tail of a case of sigHandler: kill(0, sig), then exit(1). The signal being
\* handled is blocked while the handler runs (sa_flags is SA_SIGINFO only), so a
\* kill with the handled signal returns; a SIGTERM reaches the host itself and
\* ends it when termKills, which is its default action
Propagate(saves, sig, termKills) ==
  IF sig = "SIGTERM" /\ termKills
  THEN [log |-> saves \o <<[step |-> "kill", sig |-> sig]>>, host |-> Terminated]
  ELSE [log |-> saves \o <<[step |-> "kill", sig |-> sig], [step |-> "exit", code |-> 1]>>,
        host |-> Exited]

\* sigHandler that propagates the signal before it saves the outputs
sigHandler_killsFirst(sn, si_code, devs, termKills) ==
  LET saves == saveDeviceProcessOutputs(devs)
      first(sig) == [log |-> <<[step |-> "kill", sig |-> sig]>> \o saves
                              \o <<[step |-> "exit", code |-> 1]>>,
                     host |-> Exited]
  IN IF sn = "SIGSEGV" THEN first("SIGSEGV")
     ELSE IF sn = "SIGFPE" THEN first("SIGTERM")
     ELSE IF sn = "SIGABRT" THEN first("SIGABRT")
     ELSE IF sn = "SIGCHLD" /\ si_code # "CLD_KILLED" /\ si_code # "CLD_DUMPED"
     THEN [log |-> <<>>, host |-> Running]
     ELSE first("SIGTERM")

\* sigHandler(sn, si, sc): log is what the handler does, in order, and host the
\* host process after it
sigHandler(sn, si_code, devs, termKills) ==
  LET saves == saveDeviceProcessOutputs(devs)
  IN IF sn = "SIGSEGV" THEN Propagate(saves, "SIGSEGV", termKills)
     ELSE IF sn = "SIGFPE" THEN Propagate(saves, "SIGTERM", termKills)
     ELSE IF sn = "SIGABRT" THEN Propagate(saves, "SIGABRT", termKills)
     ELSE IF sn = "SIGCHLD" /\ si_code # "CLD_KILLED" /\ si_code # "CLD_DUMPED"
     THEN [log |-> <<>>, host |-> Running]
     ELSE Propagate(saves, "SIGTERM", termKills)

\* the address spaces and sizes a caller passes to xclWrite and xclRead
XCL_ADDR_KERNEL_CTRL == "XCL_ADDR_KERNEL_CTRL"
AddressSpaces == {"XCL_ADDR_SPACE_DEVICE_RAM", XCL_ADDR_KERNEL_CTRL}
RegSizes == {4, 6, 8}

\* CpuemShim::xclWrite(space, offset, hostBuf, size): -1 is returned as a size_t
xclWrite(S, space, size) ==
  IF ~S.sock THEN [ret |-> size, sent |-> <<>>]
  ELSE IF space # XCL_ADDR_KERNEL_CTRL THEN [ret |-> -1, sent |-> <<>>]
  ELSE IF size % 4 # 0 THEN [ret |-> -1, sent |-> <<>>]
  ELSE [ret |-> size, sent |-> <<[call |-> "xclWriteAddrKernelCtrl", size |-> size]>>]

\* CpuemShim::xclRead with the size test of xclWrite
xclRead_anyWords(S, space, size) ==
  IF ~S.sock THEN [ret |-> size, sent |-> <<>>]
  ELSE IF space # XCL_ADDR_KERNEL_CTRL THEN [ret |-> -1, sent |-> <<>>]
  ELSE IF size % 4 # 0 THEN [ret |-> -1, sent |-> <<>>]
  ELSE [ret |-> size, sent |-> <<[call |-> "xclReadAddrKernelCtrl", size |-> size]>>]

\* CpuemShim::xclRead(space, offset, hostBuf, size)
xclRead(S, space, size) ==
  IF ~S.sock THEN [ret |-> size, sent |-> <<>>]
  ELSE IF space # XCL_ADDR_KERNEL_CTRL THEN [ret |-> -1, sent |-> <<>>]
  ELSE IF size # 4 THEN [ret |-> -1, sent |-> <<>>]
  ELSE [ret |-> size, sent |-> <<[call |-> "xclReadAddrKernelCtrl", size |-> size]>>]

\* CpuemShim::xclUnmapBO(boHandle, addr): munmap of addr when the handle is known;
\* the file map and the descriptor are not touched
xclUnmapBO(map, maps, boHandle, addr) ==
  IF ~HasBO(map, boHandle) THEN [ret |-> -1, maps |-> maps]
  ELSE [ret |-> 0, maps |-> maps \ {addr}]

\* the close request of xclClose, sent while mCloseAll is set
CloseAll == [call |-> "xclClose", closeAll |-> TRUE]

\* CpuemShim::xclClose up to the wait for the child. Without a channel the device
\* directory is removed (unless kept) and the call returns; with one, every file
\* of the map is unmapped and closed and the peer is told to close
xclCloseBegin(S, dir, fdmap, fds, maps, keep) ==
  IF ~S.sock
  THEN [returned |-> TRUE, dir |-> dir /\ keep, fdmap |-> fdmap, fds |-> fds,
        maps |-> maps, sent |-> <<>>]
  ELSE [returned |-> FALSE, dir |-> dir, fdmap |-> <<>>,
        fds |-> fds \ DOMAIN fdmap,
        maps |-> maps \ {fdmap[fd].addr : fd \in DOMAIN fdmap},
        sent |-> <<CloseAll>>]

\* CpuemShim::xclClose after the wait: the socket file and the channel object
\* go, then the device directory unless it is kept
xclCloseEnd(S, dir, keep) ==
  [S |-> [S EXCEPT !.sock = FALSE], dir |-> dir /\ keep]

\* CREATE of deviceDirectory in one load: dumpXML makes it once the container has
\* passed its tests, launchDeviceProcess and the new flow make it in any case
CreatesDirectory(header, outcome) ==
  IF isAieEnabled(header) THEN simDontRun \/ outcome # "validate_fails"
  ELSE header \in {"null", "xclbin2"}

\* TRUE when a load in session S reaches the sigaction calls of launchDeviceProcess
InstallsHandlers(S, header, outcome) ==
  ~isAieEnabled(header) /\ dumpXML(header, outcome) = 0 /\ ~S.sock

\* a child as fork leaves it: running, not yet asked to close
NewChild(d) == [dev |-> d, st |-> "running", how |-> "none", asked |-> FALSE]

\* the process table after a call of device d that took its session from S to T
Spawn(ch, d, S, T) == IF T.forked > S.forked THEN Append(ch, NewChild(d)) ELSE ch

\* the process table after device d has sent reqs: a running peer of d that was
\* sent the close request of xclClose has been asked to end
Ask(ch, d, reqs) ==
  IF \E i \in DOMAIN reqs : reqs[i] = CloseAll
  THEN [p \in DOMAIN ch |-> IF ch[p].dev = d /\ ch[p].st = "running"
                            THEN [ch[p] EXCEPT !.asked = TRUE] ELSE ch[p]]
  ELSE ch

\* the history of the file map after a call of device d: new entries are d's
Owned(own, fdmap, d) ==
  [fd \in DOMAIN fdmap |-> IF fd \in DOMAIN own THEN own[fd] ELSE d]

\* device d can start a call: the host runs and d's thread is in no call
CanCall(d) == hostProc = Running /\ devices[d].pc = "idle"
\* a call of d that may fork stays within the bound on children
MayFork(d) == devices[d].S.sock \/ Len(children) < MaxChildren

\* what the caller of device d got from op
Returned(op, d, arg, val) ==
  [op |-> op, dev |-> d, arg |-> arg, hasVal |-> TRUE, val |-> val]

\* the headers and outcomes of the loads of the process view
ProcHeaders == {"junk", "xclbin2", "xclbin2_aie"}
ProcOutcomes == {"ok", "bitstream_nack"}

\* device d: a call of xclAllocBO for one byte in bank 0
PAllocBO(d) ==
  /\ CanCall(d) /\ MayFork(d)
  /\ devices[d].S.binaryCounter < MaxBinaries
  /\ mBufferCount < MaxBOs
  /\ \E reply \in {r \in Replies : r.ack} :
       LET D == devices[d]
           created(c) ==
             /\ devices' = [devices EXCEPT ![d] =
                              [D EXCEPT !.S = c.S, !.mm = c.mm, !.map = c.map,
                                        !.dir = D.dir \/ ~D.S.sock]]
             /\ children' = Spawn(children, d, D.S, c.S)
             /\ handlers' = (handlers \/ ~D.S.sock)
             /\ mBufferCount' = c.cnt
             /\ sent' = c.sent
             /\ ret' = Returned("xclAllocBO", d, [size |-> 1], c.handle)
       IN created(xclAllocBO(D.mm, D.S, D.map, mBufferCount, 1,
                             [bank |-> 0, p2p |-> FALSE], reply))
  /\ UNCHANGED <<oneDevice, mFdToFileNameMap, openFds, hostMaps, hostProc, sigLog,
                 hostConfig, owner>>

\* device d: a call of xclExportBO
PExportBO(d) ==
  /\ CanCall(d)
  /\ Cardinality(openFds) < MaxFds
  /\ Cardinality(hostMaps) < MaxFds
  /\ \E h \in Handles, outcome \in FileOutcomes :
       LET e == xclExportBO(devices[d].map, mFdToFileNameMap, openFds, hostMaps, h, outcome)
       IN /\ mFdToFileNameMap' = e.fdmap
          /\ openFds' = e.fds
          /\ hostMaps' = e.maps
          /\ owner' = Owned(owner, e.fdmap, d)
          /\ ret' = Returned("xclExportBO", d, [boHandle |-> h], e.ret)
  /\ sent' = <<>>
  /\ UNCHANGED <<oneDevice, mBufferCount, devices, children, hostProc, handlers, sigLog,
                 hostConfig>>

\* device d: a call of xclImportBO with a descriptor of the file map, or with none
PImportBO(d) ==
  /\ CanCall(d) /\ MayFork(d)
  /\ devices[d].S.binaryCounter < MaxBinaries
  /\ mBufferCount < MaxBOs
  /\ \E fd \in FirstFd..(FirstFd + MaxFds), ack \in BOOLEAN :
       LET D == devices[d]
           imp(c) ==
             /\ devices' = [devices EXCEPT ![d] =
                              [D EXCEPT !.S = c.S, !.mm = c.mm, !.map = c.map,
                                        !.imported = c.imported,
                                        !.dir = D.dir \/ (c.S.binaryCounter > D.S.binaryCounter)]]
             /\ children' = Spawn(children, d, D.S, c.S)
             /\ handlers' = (handlers \/ (c.S.binaryCounter > D.S.binaryCounter))
             /\ mBufferCount' = c.cnt
             /\ sent' = c.sent
             /\ ret' = Returned("xclImportBO", d, [fd |-> fd], c.handle)
       IN imp(xclImportBO(D.mm, D.S, D.map, mBufferCount, mFdToFileNameMap, D.imported, fd,
                          [bank |-> 0, p2p |-> FALSE], [ack |-> TRUE, filename |-> ""], ack))
  /\ UNCHANGED <<oneDevice, mFdToFileNameMap, openFds, hostMaps, hostProc, sigLog,
                 hostConfig, owner>>

\* device d: a call of xclMapBO
PMapBO(d) ==
  /\ CanCall(d)
  /\ Cardinality(openFds) < MaxFds
  /\ Cardinality(hostMaps) < MaxFds
  /\ \E h \in Handles, outcome \in FileOutcomes :
       LET m == xclMapBO(devices[d].map, mFdToFileNameMap, openFds, hostMaps, h, outcome)
       IN /\ devices' = [devices EXCEPT ![d].map = m.map]
          /\ mFdToFileNameMap' = m.fdmap
          /\ openFds' = m.fds
          /\ hostMaps' = m.maps
          /\ owner' = Owned(owner, m.fdmap, d)
          /\ ret' = Returned("xclMapBO", d, [boHandle |-> h], m.ret)
  /\ sent' = <<>>
  /\ UNCHANGED <<oneDevice, mBufferCount, children, hostProc, handlers, sigLog, hostConfig>>

\* device d: a call of xclUnmapBO with the address xclMapBO returned for the handle
PUnmapBO(d) ==
  /\ CanCall(d)
  /\ \E h \in Handles :
       LET D == devices[d]
           addr == IF HasBO(D.map, h) THEN D.map[h].buf ELSE 0
           u == xclUnmapBO(D.map, hostMaps, h, addr)
       IN /\ HasBO(D.map, h) => addr # 0
          /\ hostMaps' = u.maps
          /\ ret' = Returned("xclUnmapBO", d, [boHandle |-> h, addr |-> addr], u.ret)
  /\ sent' = <<>>
  /\ UNCHANGED <<oneDevice, mBufferCount, mFdToFileNameMap, openFds, procState>>

\* device d: a call of xclLoadXclBin
PLoadXclBin(d) ==
  /\ CanCall(d) /\ MayFork(d)
  /\ devices[d].S.binaryCounter < MaxBinaries
  /\ \E header \in ProcHeaders, outcome \in ProcOutcomes :
       LET D == devices[d]
           loaded(l) ==
             /\ devices' = [devices EXCEPT ![d] =
                              [D EXCEPT !.S = l.S,
                                        !.dir = D.dir \/ CreatesDirectory(header, outcome)]]
             /\ children' = Ask(Spawn(children, d, D.S, l.S), d, l.sent)
             /\ handlers' = (handlers \/ InstallsHandlers(D.S, header, outcome))
             /\ mFdToFileNameMap' = l.fdmap
             /\ openFds' = l.fds
             /\ hostMaps' = l.maps
             /\ owner' = Owned(owner, l.fdmap, d)
             /\ sent' = l.sent
             /\ ret' = Returned("xclLoadXclBin", d, [header |-> header], l.ret)
       IN loaded(xclLoadXclBin(D.S, mFdToFileNameMap, openFds, hostMaps, header, outcome,
                               DefaultTables, DefaultTables.mem[1]))
  /\ UNCHANGED <<oneDevice, mBufferCount, hostProc, sigLog, hostConfig>>

\* device d: a call of xclWrite
PWrite(d) ==
  /\ CanCall(d)
  /\ \E space \in AddressSpaces, size \in RegSizes :
       LET w == xclWrite(devices[d].S, space, size)
       IN /\ sent' = w.sent
          /\ ret' = Returned("xclWrite", d, [space |-> space, size |-> size], w.ret)
  /\ UNCHANGED <<oneDevice, mBufferCount, mFdToFileNameMap, openFds, hostMaps, procState>>

\* device d: a call of xclRead
PRead(d) ==
  /\ CanCall(d)
  /\ \E space \in AddressSpaces, size \in RegSizes :
       LET r == xclRead(devices[d].S, space, size)
       IN /\ sent' = r.sent
          /\ ret' = Returned("xclRead", d, [space |-> space, size |-> size], r.ret)
  /\ UNCHANGED <<oneDevice, mBufferCount, mFdToFileNameMap, openFds, hostMaps, procState>>

\* device d: a call of xclClose, up to its return or to the wait for a child.
\* With simDontRun there is no wait and the call runs to its end
PClose(d) ==
  /\ CanCall(d)
  /\ LET D == devices[d]
         begun(c) ==
           LET e == xclCloseEnd(D.S, c.dir, keepRunDir)
           IN /\ devices' = [devices EXCEPT ![d] =
                    IF c.returned THEN [D EXCEPT !.dir = c.dir]
                    ELSE IF simDontRun THEN [D EXCEPT !.S = e.S, !.dir = e.dir]
                    ELSE [D EXCEPT !.pc = "waitpid"]]
              /\ children' = Ask(children, d, c.sent)
              /\ mFdToFileNameMap' = c.fdmap
              /\ openFds' = c.fds
              /\ hostMaps' = c.maps
              /\ owner' = Owned(owner, c.fdmap, d)
              /\ sent' = c.sent
              /\ ret' = [op |-> "xclClose", dev |-> d, arg |-> [channel |-> D.S.sock],
                         hasVal |-> c.returned \/ simDontRun, val |-> 0]
     IN begun(xclCloseBegin(D.S, D.dir, mFdToFileNameMap, openFds, hostMaps, keepRunDir))
  /\ UNCHANGED <<oneDevice, mBufferCount, hostProc, handlers, sigLog, hostConfig>>

\* device d: waitpid(0, &status, 0) of xclClose returns with a terminated child
\* of the process group, whichever it is, and the call runs to its end. With no
\* child left it returns -1 at once, for ever
PCloseWait(d) ==
  /\ hostProc = Running
  /\ devices[d].pc = "waitpid"
  /\ \E p \in DOMAIN children :
       /\ children[p].st = "zombie"
       /\ children' = [children EXCEPT ![p].st = "reaped"]
  /\ LET D == devices[d]
         e == xclCloseEnd(D.S, D.dir, keepRunDir)
     IN /\ devices' = [devices EXCEPT ![d] = [D EXCEPT !.S = e.S, !.dir = e.dir, !.pc = "idle"]]
        /\ ret' = [op |-> "xclClose", dev |-> d, arg |-> [channel |-> TRUE],
                   hasVal |-> TRUE, val |-> 0]
  /\ UNCHANGED <<oneDevice, mBufferCount, mFdToFileNameMap, openFds, hostMaps, sent,
                 hostProc, handlers, sigLog, hostConfig, owner>>

\* how a peer ends: it exits with status 0, which it does once it was asked
\* to close, exits with another status, is killed by a signal, or dumps core
Ends == {"clean", "status", "killed", "dumped"}
\* the si_code of the SIGCHLD the host gets for a child that ended so
SiCodeOf(how) == IF how = "killed" THEN "CLD_KILLED"
                 ELSE IF how = "dumped" THEN "CLD_DUMPED" ELSE "CLD_EXITED"

\* what the host leaves in sigLog and hostProc when signal sn is delivered
Delivered(sn, si_code, termKills) ==
  LET handled(h) == sigLog' = h.log /\ hostProc' = h.host
  IN handled(sigHandler(sn, si_code, devices, termKills))

\* peer p ends in one of the ways of hows, and the SIGCHLD is delivered to the host
PeerEndsAs(p, hows) ==
  /\ hostProc = Running
  /\ p \in DOMAIN children
  /\ children[p].st = "running"
  /\ \E how \in hows, termKills \in BOOLEAN :
       /\ how = "clean" => children[p].asked
       /\ children' = [children EXCEPT ![p].st = "zombie", ![p].how = how]
       /\ IF handlers THEN Delivered("SIGCHLD", SiCodeOf(how), termKills)
          ELSE UNCHANGED <<sigLog, hostProc>>
  /\ UNCHANGED <<oneDevice, mBufferCount, mFdToFileNameMap, openFds, hostMaps, sent, ret,
                 devices, handlers, hostConfig, owner>>

\* peer p ends, in any way
PeerEnds(p) == PeerEndsAs(p, Ends)

\* peer p ends as it was asked to
PeerCloses(p) == PeerEndsAs(p, {"clean"})

\* a fatal signal is delivered to the host while sigHandler is installed
Signal ==
  /\ hostProc = Running
  /\ handlers
  /\ \E sn \in Signals \ {"SIGCHLD"}, termKills \in BOOLEAN :
       Delivered(sn, "none", termKills)
  /\ UNCHANGED <<oneDevice, mBufferCount, mFdToFileNameMap, openFds, hostMaps, sent, ret,
                 devices, children, handlers, hostConfig, owner>>

\* the process view starts with any setting of the keep-run-directory flag and
\* of simDontRun
InitProc ==
  /\ xclbin = DefaultTables
  /\ mDDRBankCount = 1
  /\ simDontRun \in BOOLEAN
  /\ message_size = DefaultMessageSize
  /\ mDDRMemoryManager = initMemoryManager(1, 0)
  /\ sock = FALSE
  /\ binaryCounter = 0
  /\ forked = 0
  /\ mXoclObjMap = <<>>
  /\ mBufferCount = 0
  /\ mFdToFileNameMap = <<>>
  /\ mImportedBOs = {}
  /\ openFds = {}
  /\ hostMaps = {}
  /\ ret = [op |-> "none", hasVal |-> FALSE, val |-> 0]
  /\ sent = <<>>
  /\ live = EmptyBag
  /\ handed = <<>>
  /\ cp = NoCopy
  /\ channels = 0
  /\ mReqList = <<>>
  /\ mReqCounter = 0
  /\ poll = NoPoll
  /\ thread = [t \in Threads |-> Idle]
  /\ mApiMtx = NoThread
  /\ mProcessLaunchMtx = NoThread
  /\ inflight = {}
  /\ completed = {}
  /\ qlog = NoLog
  /\ ProcInit(BOOLEAN)

\* loads, closes, the peers' ends and the signals
NextClose ==
  \/ \E d \in Devices : PLoadXclBin(d)
  \/ \E d \in Devices : PClose(d)
  \/ \E d \in Devices : PCloseWait(d)
  \/ \E p \in 1..MaxChildren : PeerEnds(p)
  \/ Signal

SpecClose == InitProc /\ [][NextClose]_vars


\* the same, the run directories not kept
InitMaps == InitProc /\ ~keepRunDir

\* the device whose caller is followed through every call on buffers and files
Driven == {0}

\* buffers, their exports and mappings, loads and closes of the driven device,
\* and the ends of its peers
NextMaps ==
  \/ \E d \in Driven : PAllocBO(d)
  \/ \E d \in Driven : PExportBO(d)
  \/ \E d \in Driven : PMapBO(d)
  \/ \E d \in Driven : PUnmapBO(d)
  \/ \E d \in Driven : PLoadXclBin(d)
  \/ \E d \in Driven : PClose(d)
  \/ \E d \in Driven : PCloseWait(d)
  \/ \E p \in 1..MaxChildren : PeerCloses(p)

SpecMaps == InitMaps /\ [][NextMaps]_vars

\* buffers, their exports and imports, loads and closes of every device, and
\* the ends of the peers
NextTwo ==
  \/ \E d \in Devices : PAllocBO(d)
  \/ \E d \in Devices : PExportBO(d)
  \/ \E d \in Devices : PImportBO(d)
  \/ \E d \in Devices : PLoadXclBin(d)
  \/ \E d \in Devices : PClose(d)
  \/ \E d \in Devices : PCloseWait(d)
  \/ \E p \in 1..MaxChildren : PeerCloses(p)

SpecTwo == InitMaps /\ [][NextTwo]_vars

\* loads, closes and register accesses of the driven device, and the ends of
\* its peers
NextRegs ==
  \/ \E d \in Driven : PLoadXclBin(d)
  \/ \E d \in Driven : PWrite(d)
  \/ \E d \in Driven : PRead(d)
  \/ \E d \in Driven : PClose(d)
  \/ \E d \in Driven : PCloseWait(d)
  \/ \E p \in 1..MaxChildren : PeerCloses(p)

SpecRegs == InitProc /\ [][NextRegs]_vars

(* ------------------- the low-overhead profiling hooks ------------------ *)
\* everything but the profiling hooks and the record of the last call
shimAndProc == <<oneDevice, mBufferCount, mFdToFileNameMap, openFds, hostMaps, sent,
                 devices, children, hostProc, handlers, sigLog, keepRunDir, owner>>

\* the symbol register_functions looks up for each callback
SymbolOf(c) ==
  CASE c = "function_start_cb" -> "lop_function_start"
    [] c = "function_end_cb" -> "lop_function_end"
    [] c = "read_cb" -> "lop_read"
    [] c = "write_cb" -> "lop_write"
    [] c = "enqueue_cb" -> "lop_kernel_enqueue"

\* the symbols a plugin library may export
Symbols == {SymbolOf(c) : c \in Callbacks}

\* xdp::lop::register_functions(handle): each callback is set from its symbol
\* and reset to nullptr when dlsym reported an error
register_functions(exported) == [c \in Callbacks |-> SymbolOf(c) \in exported]

\* the names and the queue addresses the OpenCL entry points give their logger
LoggedFunctions == {"clEnqueueReadBuffer"}
LoggedAddresses == {0, 7}

\* the callback function_start_cb or function_end_cb is invoked with
Call(c, name, address, funcid) ==
  [cb |-> c, name |-> name, address |-> address, funcid |-> funcid]

\* FunctionCallLogger::FunctionCallLogger(function, address): the object, the
\* next identifier and the callbacks invoked. start is history: the start call
\* issued for this object, <<>> when none was
FunctionCallLogger(cb, id, function, address) ==
  IF cb["function_start_cb"]
  THEN [obj |-> [live |-> TRUE, m_funcid |-> id, m_name |-> function, m_address |-> address,
                 start |-> <<Call("function_start_cb", function, address, id)>>],
        issued |-> id + 1,
        calls |-> <<Call("function_start_cb", function, address, id)>>]
  ELSE [obj |-> [live |-> TRUE, m_funcid |-> 0, m_name |-> function, m_address |-> address,
                 start |-> <<>>],
        issued |-> id,
        calls |-> <<>>]

\* FunctionCallLogger::~FunctionCallLogger(): the callbacks invoked
DestroyLogger(cb, obj) ==
  IF cb["function_end_cb"]
  THEN <<Call("function_end_cb", obj.m_name, obj.m_address, obj.m_funcid)>>
  ELSE <<>>

\* cl_int execution statuses of an event, and an error status (a negative value)
Statuses == {"CL_QUEUED", "CL_SUBMITTED", "CL_RUNNING", "CL_COMPLETE", "CL_ERROR"}

\* cl_mem_migration_flags: the set of the bits that are set
MigrationFlags == SUBSET {"CL_MIGRATE_MEM_OBJECT_HOST", "CL_MIGRATE_MEM_OBJECT_CONTENT_UNDEFINED"}

\* the lambdas of lop.cpp: the callback named c is invoked with (uid, true) at
\* CL_RUNNING and with (uid, false) at CL_COMPLETE, if it is set
Lambda(c, cb, uid, status) ==
  IF ~cb[c] THEN <<>>
  ELSE IF status = "CL_RUNNING" THEN <<[cb |-> c, uid |-> uid, isStart |-> TRUE]>>
  ELSE IF status = "CL_COMPLETE" THEN <<[cb |-> c, uid |-> uid, isStart |-> FALSE]>>
  ELSE <<>>

\* xocl::lop::action_read(): the callback its lambda uses
action_read == "read_cb"

\* xocl::lop::action_write()
action_write == "write_cb"

\* xocl::lop::action_migrate that takes the write callback for a migration to the host
action_migrate_toDevice(flags) ==
  IF "CL_MIGRATE_MEM_OBJECT_HOST" \in flags THEN "write_cb" ELSE "read_cb"

\* xocl::lop::action_migrate(flags): if (flags & CL_MIGRATE_MEM_OBJECT_HOST)
action_migrate(flags) ==
  IF "CL_MIGRATE_MEM_OBJECT_HOST" \in flags THEN "read_cb" ELSE "write_cb"

\* xocl::lop::action_ndrange()
action_ndrange == "enqueue_cb"

\* the functions that make an action, and the action each returns
ActionKinds == {"action_read", "action_write", "action_migrate", "action_ndrange"}

ActionOf(kind, flags) ==
  CASE kind = "action_read" -> action_read
    [] kind = "action_write" -> action_write
    [] kind = "action_migrate" -> action_migrate(flags)
    [] kind = "action_ndrange" -> action_ndrange

\* xdp::lop::load(): the module_loader is constructed once and calls
\* register_functions on the library it opened
LopLoad ==
  /\ ~lopLoaded
  /\ lopLoaded' = TRUE
  /\ \E exported \in SUBSET Symbols : lopCb' = register_functions(exported)
  /\ calls' = <<>>
  /\ ret' = [op |-> "xdp::lop::load", arg |-> <<>>, hasVal |-> FALSE, val |-> 0]
  /\ UNCHANGED <<shimAndProc, issued, loggers, events>>

\* an OpenCL entry point constructs its FunctionCallLogger
LogBegin ==
  /\ issued < MaxIssued
  /\ \E o \in 1..MaxLoggers, function \in LoggedFunctions, address \in LoggedAddresses :
       /\ ~loggers[o].live
       /\ LET l == FunctionCallLogger(lopCb, issued, function, address)
          IN /\ loggers' = [loggers EXCEPT ![o] = l.obj]
             /\ issued' = l.issued
             /\ calls' = l.calls
             /\ ret' = [op |-> "FunctionCallLogger", arg |-> [obj |-> l.obj],
                        hasVal |-> FALSE, val |-> 0]
  /\ UNCHANGED <<shimAndProc, lopLoaded, lopCb, events>>

\* the entry point returns and its FunctionCallLogger is destroyed
LogEnd ==
  /\ \E o \in 1..MaxLoggers :
       /\ loggers[o].live
       /\ loggers' = [loggers EXCEPT ![o] = NoLogger]
       /\ calls' = DestroyLogger(lopCb, loggers[o])
       /\ ret' = [op |-> "~FunctionCallLogger", arg |-> [obj |-> loggers[o]],
                  hasVal |-> FALSE, val |-> 0]
  /\ UNCHANGED <<shimAndProc, lopLoaded, lopCb, issued, events>>

\* xocl::lop::set_event_action(event, f, args): the event is given the action f
\* returns, if lop tracing is configured
SetEventAction ==
  /\ \E e \in 1..MaxEvents, kind \in ActionKinds, flags \in MigrationFlags,
        get_lop_trace \in BOOLEAN :
       /\ events[e] = NoAction
       /\ kind # "action_migrate" => flags = {}
       /\ events' = IF get_lop_trace
                    THEN [events EXCEPT ![e] = [lambda |-> ActionOf(kind, flags),
                                                kind |-> kind, flags |-> flags]]
                    ELSE events
       /\ ret' = [op |-> "set_event_action",
                  arg |-> [uid |-> e, kind |-> kind, flags |-> flags, trace |-> get_lop_trace],
                  hasVal |-> FALSE, val |-> 0]
  /\ calls' = <<>>
  /\ UNCHANGED <<shimAndProc, lopLoaded, lopCb, issued, loggers>>

\* the status of an event changes and its action is run with the new status
RunAction ==
  /\ \E e \in 1..MaxEvents, status \in Statuses :
       /\ events[e] # NoAction
       /\ calls' = Lambda(events[e].lambda, lopCb, e, status)
       /\ ret' = [op |-> "lop_action",
                  arg |-> [uid |-> e, kind |-> events[e].kind, flags |-> events[e].flags,
                           status |-> status],
                  hasVal |-> FALSE, val |-> 0]
  /\ UNCHANGED <<shimAndProc, lopLoaded, lopCb, issued, loggers, events>>

\* the loggers of the OpenCL entry points around the load of the plugin
NextLog == LopLoad \/ LogBegin \/ LogEnd

SpecLog == InitAlloc /\ [][NextLog]_vars

\* the actions of the events around the load of the plugin
NextEvents == LopLoad \/ SetEventAction \/ RunAction

SpecEvents == InitAlloc /\ [][NextEvents]_vars

(* ----------------- claims on the device-buffer interface -------------- *)
InBank(r) ==
  /\ r.bank < Len(mDDRMemoryManager)
  /\ LET m == mDDRMemoryManager[r.bank + 1]
     IN m.mStart <= r.addr /\ r.addr + r.size <= m.mStart + m.mSize

Disjoint(a, b) == a.addr + a.size <= b.addr \/ b.addr + b.size <= a.addr

\* C1: the regions returned by xclAllocDeviceBuffer2 and not yet freed are
\* pairwise disjoint and each lies inside the bank that was selected for it.
C1_RegionsDisjointInBank ==
  \A r \in BagToSet(live) :
    /\ CopiesIn(r, live) = 1
    /\ InBank(r)
    /\ \A q \in BagToSet(live) \ {r} : Disjoint(r, q)

\* C2: once every address that was returned has been freed exactly once, every
\* bank's free size, and so the mDDRFreeSize summed by xclGetDeviceInfo2, is
\* the bank's original capacity.
C2_BalancedRestoresCapacity ==
  live = EmptyBag =>
    /\ \A i \in 1..Len(mDDRMemoryManager) :
         mDDRMemoryManager[i].mFreeSize = mDDRMemoryManager[i].mSize
    /\ xclGetDeviceInfo2(mDDRMemoryManager) = Len(mDDRMemoryManager) * BankSize

IsAllocRequest(q) == q.call = "xclAllocDeviceBuffer"

\* C3: a call of xclAllocDeviceBuffer2 that asks an existing bank for more than
\* its free size returns mNull, leaves every bank as it was and forwards no
\* allocation request; and mNull is never the result of a call that allocated.
C3_OverCapacityReturnsNull ==
  [][ret'.op = "xclAllocDeviceBuffer2" =>
       /\ ( /\ ret'.arg.domain = XCL_MEM_DEVICE_RAM
            /\ ret'.arg.flags < Len(mDDRMemoryManager)
            /\ ret'.arg.size > mDDRMemoryManager[ret'.arg.flags + 1].mFreeSize )
          => /\ ret'.val = mNull
             /\ mDDRMemoryManager' = mDDRMemoryManager
             /\ \A k \in 1..Len(sent') : ~IsAllocRequest(sent'[k])
       /\ mDDRMemoryManager' # mDDRMemoryManager => ret'.val # mNull
    ]_vars

\* a request of one byte was refused by a bank that exists and is full
C3_Witness ==
  /\ ret.op = "xclAllocDeviceBuffer2"
  /\ ret.val = mNull
  /\ ret.arg.domain = XCL_MEM_DEVICE_RAM
  /\ ret.arg.flags < Len(mDDRMemoryManager)
  /\ ret.arg.size = 1
  /\ mDDRMemoryManager[ret.arg.flags + 1].mFreeSize = 0

(* ------------------ claims on the buffer-object interface ------------- *)
\* C4: when the allocation made for xclAllocBO returns mNull, xclAllocBO
\* returns mNullBO, the registry is unchanged and mBufferCount is not advanced.
C4_FailedAllocNotRegistered ==
  [][(ret'.op = "xclAllocBO" /\ ret'.arg.size # 0 /\ ret'.arg.alloc = mNull) =>
       /\ ret'.val = mNullBO
       /\ mXoclObjMap' = mXoclObjMap
       /\ mBufferCount' = mBufferCount
    ]_vars

\* a non-zero request was refused by the allocator of an existing bank
C4_Witness ==
  /\ ret.op = "xclAllocBO"
  /\ ret.arg.size = BankSize + 1
  /\ ret.arg.flags.bank < Len(mDDRMemoryManager)
  /\ ret.arg.alloc = mNull
  /\ ret.val = mNullBO

\* C5: xclFreeBO of a registered handle gives the BO's region back (the free
\* size of the device grows by the BO's size) and removes the record; calls of
\* xclGetBOProperties, xclMapBO and xclSyncBO on an absent handle report not-found.
C5_FreeReturnsRegion ==
  /\ [][(ret'.op = "xclFreeBO" /\ ret'.arg.present) =>
          /\ ret'.arg.boHandle \notin DOMAIN mXoclObjMap'
          /\ xclGetDeviceInfo2(mDDRMemoryManager') =
               xclGetDeviceInfo2(mDDRMemoryManager) + mXoclObjMap[ret'.arg.boHandle].size
       ]_vars
  /\ []( /\ (ret.op \in {"xclGetBOProperties", "xclSyncBO"}
               /\ ret.arg.boHandle \notin DOMAIN mXoclObjMap) => ret.val = -1
         /\ (ret.op = "xclMapBO" /\ ret.arg.boHandle \notin DOMAIN mXoclObjMap)
               => ret.val = 0 )

C8_HandlesMonotonic ==
  /\ \A i, j \in 1..Len(handed) : i < j => handed[i] < handed[j]
  /\ \A i \in 1..Len(handed) : handed[i] # mNullBO
  /\ \A h \in DOMAIN mXoclObjMap : h < mBufferCount

\* an import returned the second handle after the first one was freed
C8_Witness ==
  /\ Len(handed) = 2
  /\ handed[2] \in mImportedBOs
  /\ handed[2] \in DOMAIN mXoclObjMap
  /\ handed[1] \notin DOMAIN mXoclObjMap

\* the size xclAllocDeviceBuffer2 asks the allocator for
EffectiveSize(size) == RoundUp(IF size = 0 THEN DDR_BUFFER_ALIGNMENT ELSE size, PageSize)

\* C9: an xclAllocBO whose bank index is not the index of a bank allocator is
\* served from bank 0 and succeeds whenever bank 0 has room for it.
C9_OutOfRangeFallsBack ==
  [][(/\ ret'.op = "xclAllocBO"
      /\ ret'.arg.size # 0
      /\ ret'.arg.flags.bank >= Len(mDDRMemoryManager)
      /\ FirstFit(mDDRMemoryManager[1].mFreeBufferList, EffectiveSize(ret'.arg.size)) # 0) =>
       /\ ret'.val # mNullBO
       /\ mDDRMemoryManager'[1].mFreeSize =
            mDDRMemoryManager[1].mFreeSize - EffectiveSize(ret'.arg.size)
    ]_vars

(* --------------------- claims on the copy primitives ------------------ *)
RECURSIVE SumSizes(_)
SumSizes(chunks) == IF chunks = <<>> THEN 0 ELSE Head(chunks).size + SumSizes(Tail(chunks))

\* C10: the chunks of a copy are forwarded in ascending order, each is 1 to
\* message_size bytes long, chunk k starts at dst+offset+k*message_size on the
\* device and at src+offset+k*message_size on the host, the chunks tile
\* [offset, offset+size) and the call returns the sum of the chunk lengths.
C10_ChunksTile ==
  cp.pc # "idle" =>
    /\ \A k \in 1..Len(cp.chunks) :
         /\ cp.chunks[k].size >= 1
         /\ cp.chunks[k].size <= message_size
         /\ cp.chunks[k].dev = cp.dev + cp.seek + (k - 1) * message_size
         /\ cp.chunks[k].host = cp.host + cp.seek + (k - 1) * message_size
         /\ k < Len(cp.chunks) => cp.chunks[k].dev + cp.chunks[k].size = cp.chunks[k + 1].dev
    /\ SumSizes(cp.chunks) <= cp.size
    /\ cp.pc = "done" => (SumSizes(cp.chunks) = cp.size /\ ret.hasVal /\ ret.val = SumSizes(cp.chunks))

\* the bytes of the chunks before chunk k
DoneBefore(k) == SumSizes(SubSeq(cp.chunks, 1, k - 1))

\* C11: when the peer fails a chunk of a copy, no later chunk is forwarded and
\* the copy returns the number of bytes of the chunks before it, which is less
\* than size. Stated for the copies whose message size is at least one byte.
C11_FailedChunkAborts ==
  (cp.pc # "idle" /\ cp.messageSize >= 1) =>
    \A k \in 1..Len(cp.acks) :
      ~cp.acks[k] =>
        /\ Len(cp.chunks) = k
        /\ cp.pc = "done" => (ret.val = DoneBefore(k) /\ ret.val < cp.size)

\* C12: after xclCopyBufferHost2Device of size bytes to an address at an offset
\* and xclCopyBufferDevice2Host of size bytes from that address at that offset,
\* with a peer that stores and returns the bytes of each request, the bytes read
\* are the bytes written, and both calls return size.
C12_RoundTrip ==
  cp.pc = "read" =>
    /\ \A i \in 0..(cp.size - 1) :
         cp.dst[RBase + cp.seek + i] = cp.src[WBase + cp.seek + i]
    /\ ret.val = cp.size

\* a read of one byte more than a message, of bytes that are not all the same,
\* at an offset and an address that are not zero
C12_Witness ==
  /\ cp.pc = "read"
  /\ cp.size = message_size + 1
  /\ cp.seek = 1
  /\ cp.dest = 1
  /\ Len(sent) = 2
  /\ \E i, j \in DOMAIN cp.src : cp.src[i] # cp.src[j]

(* ------------------------------ C13 ----------------------------------- *)
\* a step in which launchDeviceProcess ran: a load by the old flow that passed
\* dumpXML, or an operation that found the channel absent and spawned lazily
ViaLoad == ret'.op = "xclLoadXclBin" /\ ret'.arg.launched
ViaTemp == ret'.op # "xclLoadXclBin" /\ ~sock /\ sock'
FirstLaunch ==
  /\ sock'
  /\ forked' = IF simDontRun THEN forked ELSE forked + 1
  /\ channels' = channels + 1

\* C13 as stated: the first launchDeviceProcess forks the peer and opens the
\* channel, and every later one, made while the channel is open, leaves the
\* channel, the fork count and the binary-load counter as they were.
C13_LaterLaunchIsNoOp ==
  [][/\ ((ViaLoad \/ ViaTemp) /\ ~sock) => FirstLaunch
     /\ (ViaLoad /\ sock) => UNCHANGED <<sock, binaryCounter, forked, channels>>]_vars

\* C13 amended: the first launchDeviceProcess forks the peer (unless the
\* configuration says not to run it) and opens the channel; every later one
\* forks nothing and keeps the channel, and each one, first or later, numbers
\* one more binary directory.
C13_LaterLaunchOnlyNumbers ==
  [][/\ ((ViaLoad \/ ViaTemp) /\ ~sock) => FirstLaunch
     /\ (ViaLoad /\ sock) => UNCHANGED <<sock, forked, channels>>
     /\ (ViaLoad \/ ViaTemp) => binaryCounter' = binaryCounter + 1]_vars

C13_Witness ==
  /\ ret.op = "xclLoadXclBin" /\ ret.arg.launched
  /\ binaryCounter = 2 /\ sock /\ channels = 1
  /\ forked = (IF simDontRun THEN 0 ELSE 1)


(* ------------------------------ C19 ----------------------------------- *)
\* C19: a load of a container whose magic is legacy or unrecognized returns a
\* non-zero result, forwards no request, forks no process, creates no channel
\* and leaves the binary-load counter as it was.
C19_BadMagicFailsEarly ==
  [][(ret'.op = "xclLoadXclBin" /\ ret'.arg.header \in {"xclbin0", "junk"}) =>
       /\ ret'.val # 0
       /\ sent' = <<>>
       /\ UNCHANGED <<sock, forked, channels, binaryCounter>>]_vars

C19_Witness ==
  /\ ret.op = "xclLoadXclBin" /\ ret.arg.header = "junk"
  /\ ret.val = -1 /\ sent = <<>>
  /\ ~sock /\ forked = 0 /\ channels = 0 /\ binaryCounter = 0

C14_OneForkOneChannel == forked <= 1 /\ channels <= 1

(* ------------------------------ C15 ----------------------------------- *)
\* C15: in every interleaving of caller threads on one device, at most one
\* forwarded request is between its send and its acknowledgement.
C15_OneRequestInFlight == Cardinality(inflight) <= 1


(* ------------------------------ C16 ----------------------------------- *)
\* C16: a call of xclPollCompletion given a positive timeout returns, whether
\* or not the peer ever completes min_compl requests: a call that never returns
\* is still blocked after any timeout has elapsed.
C16_PollReturnsByTimeout ==
  [](poll.pc = "polling" /\ poll.timeout > 0 => <>(poll.pc = "idle"))

(* ------------------------------ C17 ----------------------------------- *)
\* C17: the count xclPollCompletion returns is the number of completions it
\* wrote, at least min_compl and at most max_compl; with 2 completed and 3
\* pending requests, min_compl 2 and max_compl 4, it is exactly 2.
C17_BetweenMinAndMax ==
  (ret.op = "xclPollCompletion" /\ ret.hasVal) =>
    /\ ret.arg.written = ret.val
    /\ ret.arg.min <= ret.val /\ ret.val <= ret.arg.max
    /\ (ret.arg.ready = 2 /\ ret.arg.pending = 3 /\ ret.arg.min = 2 /\ ret.arg.max = 4)
         => ret.val = 2

(* ------------------------------ C18 ----------------------------------- *)
Listed == {mReqList[i] : i \in DOMAIN mReqList}

\* C18: mReqList holds, once each, exactly the non-blocking requests issued
\* whose completion no poll has yet written to a caller's array; a completion
\* is written once, with the priv_data of its request; a non-blocking submit
\* leaves its record at the end of the list and a blocking one leaves none.
C18_ListMatchesOutstanding ==
  /\ Cardinality(Listed) = Len(mReqList)
  /\ Listed = qlog.issued \ BagToSet(qlog.reported)
  /\ \A r \in BagToSet(qlog.reported) : r \in qlog.issued /\ CopiesIn(r, qlog.reported) = 1
  /\ ret.op \in {"xclWriteQueue", "xclReadQueue"} =>
       IF ret.arg.nonBlocking
       THEN mReqList # <<>> /\ mReqList[Len(mReqList)].id = mReqCounter - 1
       ELSE \A r \in Listed : r.id # mReqCounter - 1


(* ------------------------------ C21 ----------------------------------- *)
\* the held container has every memory index inside the topology
AllInRange ==
  \A k \in DOMAIN xclbin.conn : xclbin.conn[k].mem_data_index \in 0..(Len(xclbin.mem) - 1)
\* the memory entry, the instance base address and the run of a connection
MemOf(k) == xclbin.mem[xclbin.conn[k].mem_data_index + 1]
BaseOf(k) == instanceBaseAddr(MemOf(k).flow_id)
RunStarts == {k \in DOMAIN xclbin.conn : k = 1 \/ BaseOf(k) # BaseOf(k - 1)}
RunOf(k) == {j \in k..Len(xclbin.conn) : \A i \in k..j : BaseOf(i) = BaseOf(k)}
\* the n-th run start, and the bindings of the streaming entries of its run
NthStart(n) == CHOOSE k \in RunStarts : Cardinality({j \in RunStarts : j <= k}) = n
Bindings(k) ==
  {<<xclbin.conn[j].arg_index, MemOf(j).flow_id>> :
     j \in {i \in RunOf(k) : MemOf(i).m_type = "MEM_STREAMING"}}
IsSetup(q) == q.call = "xclSetupInstance"
Setups == SelectSeq(sent, IsSetup)
HeldLoad == ret.op = "xclLoadXclBin" /\ ret.arg.tables = "held"

\* C21: after a load of a container whose indices are in range, the
\* xclSetupInstance requests are one per maximal run of connections with equal
\* instance base address, in order, each naming the base of its run and
\* carrying exactly the streaming bindings of its run; none for an empty table.
C21_OneSetupPerRun ==
  (HeldLoad /\ AllInRange) =>
    /\ Len(Setups) = Cardinality(RunStarts)
    /\ \A n \in 1..Len(Setups) :
         n <= Cardinality(RunStarts) =>
           /\ Setups[n].base = BaseOf(NthStart(n))
           /\ {<<a, Setups[n].args[a]>> : a \in DOMAIN Setups[n].args} = Bindings(NthStart(n))


(* ------------------------------ C22 ----------------------------------- *)
\* the requests a thread has still to send in its call
ToSend(t) ==
  IF thread[t].pc = "busy"
  THEN Len(SelectSeq(thread[t].steps, LAMBDA x : x = "send")) ELSE 0
\* the thread is in a load and has sent a request of it
LoadStarted(t) ==
  /\ thread[t].pc = "busy" /\ thread[t].op \in LoadOps
  /\ ToSend(t) < Len(SelectSeq(LoadRequests, LAMBDA x : x = "send"))
\* the thread has sent a request of its load and has another still to send
MidLoad(t) == LoadStarted(t) /\ ToSend(t) >= 1

\* C22: a load sends its requests once the channel exists, and no other load
\* on the device sends a request between the first and the last request of a
\* load: no two loads are both between their first and their last request.
C22_LoadRequestsInOrder ==
  /\ \A t \in Threads : LoadStarted(t) => sock
  /\ \A t1, t2 \in Threads : (MidLoad(t1) /\ MidLoad(t2)) => t1 = t2


(* ------------------------------ C23 ----------------------------------- *)
IsBitstream(q) == q.call = "xclLoadBitstream"
\* the load just made was of the held container, which has an index out of range
BadHeldLoad == HeldLoad /\ ~AllInRange

\* C23: a load of a container with a memory index out of range, below or above
\* the topology, returns a negative code, reads the topology at no such index
\* and forwards no load-bitstream request; a load of a well-formed container
\* that follows it on the same device returns 0.
C23_BadIndexRejected ==
  [][/\ BadHeldLoad' =>
          /\ ret'.val < 0
          /\ ~ret'.arg.oob
          /\ SelectSeq(sent', IsBitstream) = <<>>
     /\ (BadHeldLoad /\ ret'.arg.tables = "default") => ret'.val = 0]_vars

(* ------------------------------ C24 ----------------------------------- *)
\* the peers of device d that are still running
RunningPeers(d) == {p \in DOMAIN children : children[p].dev = d /\ children[p].st = "running"}
\* a step removes the directory of device d
RemovesDirectory(d) == devices[d].dir /\ ~devices'[d].dir

\* C24: in every execution of xclClose the device directory is removed only
\* when the keep-run-directory flag is not set and only after the wait for the
\* peer, so never while a peer spawned for the device is still running; the
\* close request is sent only on an open channel
C24_DirectoryOutlivesPeer ==
  [][/\ \A d \in Devices :
          RemovesDirectory(d) => ~keepRunDir /\ RunningPeers(d)' = {}
     /\ (ret'.op = "xclClose" /\ sent' # <<>>) => ret'.arg.channel]_vars

(* ------------------------------ C25 ----------------------------------- *)
\* xclClose of device d has returned to its caller
ClosedBy(d) == ret.op = "xclClose" /\ ret.hasVal /\ ret.dev = d

\* C25: after xclClose returns, whatever came before it, the file map holds no
\* entry made by the closed device and no descriptor opened by its xclExportBO
\* or xclMapBO is still open
C25_CloseReleasesAll ==
  \A d \in Devices :
    ClosedBy(d) => /\ \A fd \in DOMAIN mFdToFileNameMap : owner[fd] # d
                   /\ \A fd \in openFds : fd \in DOMAIN owner /\ owner[fd] # d

(* ------------------------------ C26 ----------------------------------- *)
\* the entries of the file map that a step unmaps, closes and erases
Released == DOMAIN mFdToFileNameMap \ DOMAIN mFdToFileNameMap'

\* C26: an entry of the file map is unmapped and closed once: when xclClose or
\* resetProgram releases it, its mapping was still in place and its descriptor
\* still open, so that nothing is unmapped or closed a second time
C26_ReleasedOnce ==
  [][\A fd \in Released :
       /\ fd \in openFds
       /\ mFdToFileNameMap[fd].addr # MAP_FAILED => mFdToFileNameMap[fd].addr \in hostMaps]_vars

(* ------------------------------ C27 ----------------------------------- *)
\* a step leaves alone what belongs to device b: its allocators, its registry,
\* and the entries of the file map its calls made, with their descriptors and
\* mappings
Untouched(b) ==
  /\ devices'[b].mm = devices[b].mm
  /\ devices'[b].map = devices[b].map
  /\ \A fd \in DOMAIN mFdToFileNameMap :
        owner[fd] = b =>
          /\ fd \in DOMAIN mFdToFileNameMap'
          /\ mFdToFileNameMap'[fd] = mFdToFileNameMap[fd]
          /\ owner'[fd] = b
          /\ fd \in openFds'
          /\ mFdToFileNameMap[fd].addr \in hostMaps => mFdToFileNameMap[fd].addr \in hostMaps'

\* C27: the allocators, the registry and the file map are private to a device:
\* a call on one device leaves alone what belongs to every other device
C27_DevicesArePrivate ==
  [][ret'.op # "none" => \A b \in Devices \ {ret'.dev} : Untouched(b)]_vars

(* ------------------------------ C28 ----------------------------------- *)
\* the positions of sigLog that hold step e
StepsOf(e) == {k \in DOMAIN sigLog : sigLog[k] = e}
\* the positions of sigLog where the signal is propagated or the host exits
Leaving == {k \in DOMAIN sigLog : sigLog[k].step \in {"kill", "exit"}}
\* sigHandler has ended the host
Fatal == hostProc.st = "terminated"

\* C28: when a handled fatal signal has ended the host, the output of every
\* binary directory of every registered device with an open channel was saved
\* before the signal was propagated and before the exit, the signal was
\* propagated, and the host ended with a status that is not success
C28_SavedBeforeLeaving ==
  Fatal =>
    /\ \A d \in Devices :
         devices[d].S.sock =>
           \A i \in 0..(devices[d].S.binaryCounter - 1) :
             \E k \in StepsOf([step |-> "save", dev |-> d, binary |-> i]) :
               \A l \in Leaving : k < l
    /\ \E k \in Leaving : sigLog[k].step = "kill"
    /\ hostProc.by \in {"exit(1)", "SIGTERM"}
    /\ hostProc.by = "exit(1)" <=> sigLog[Len(sigLog)] = [step |-> "exit", code |-> 1]

\* a fatal signal has ended the host while both devices had an open channel
\* and binary directories to save
C28_Witness ==
  /\ Fatal
  /\ \A d \in Devices : devices[d].S.sock /\ devices[d].S.binaryCounter > 0
  /\ \E k \in Leaving : sigLog[k] = [step |-> "kill", sig |-> "SIGSEGV"]

(* ------------------------------ C29 ----------------------------------- *)
\* peer p ends in this step
EndsNow(p) == children[p].st = "running" /\ children'[p].st = "zombie"

\* C29: a peer that ends abnormally (killed, core dumped, or exit with a status
\* other than 0) ends the host with a status that is not success, after the
\* save; a peer that ends cleanly does not end the host
C29_AbnormalEndIsFatal ==
  [][\A p \in DOMAIN children :
       EndsNow(p) =>
         IF children'[p].how = "clean"
         THEN hostProc' = Running
         ELSE hostProc'.st = "terminated" /\ C28_SavedBeforeLeaving']_vars

(* ------------------------------ C30 ----------------------------------- *)
\* the last call was a register access of a device that has no channel
RegWithoutChannel ==
  ret.op \in {"xclWrite", "xclRead"} /\ ~devices[ret.dev].S.sock

\* C30: xclWrite or xclRead on a device without a channel reports a short
\* result or a failure, never the full size, and forwards nothing
C30_NoChannelIsNotSuccess ==
  RegWithoutChannel => ret.val # ret.arg.size /\ sent = <<>>

(* ------------------------------ C31 ----------------------------------- *)
\* the request that ties the file of an exported BO to the base of a BO
ImportReq(fd, h) ==
  [call |-> "xclImportBO", file |-> mFdToFileNameMap[fd].file,
   base |-> mXoclObjMap'[h].base, size |-> mFdToFileNameMap[fd].size]

\* C31: xclImportBO of an identifier that xclExportBO recorded yields a BO
\* under a handle never handed out before, of the size recorded at the export,
\* with the identifier as its origin descriptor, marked as imported and tied
\* to the exported file by the forwarded request; xclImportBO of an identifier
\* that is not in the map fails, registers nothing and forwards nothing
C31_ExportThenImport ==
  [][ret'.op = "xclImportBO" =>
       IF ret'.arg.fd \in DOMAIN mFdToFileNameMap
       THEN /\ ret'.val # mNullBO
            /\ ~HasBO(mXoclObjMap, ret'.val)
            /\ \A i \in 1..Len(handed) : handed[i] # ret'.val
            /\ HasBO(mXoclObjMap', ret'.val)
            /\ mXoclObjMap'[ret'.val].size = mFdToFileNameMap[ret'.arg.fd].size
            /\ mXoclObjMap'[ret'.val].fd = ret'.arg.fd
            /\ ret'.val \in mImportedBOs'
            /\ sent' # <<>>
            /\ sent'[Len(sent')] = ImportReq(ret'.arg.fd, ret'.val)
       ELSE /\ ret'.val = mNullBO
            /\ mXoclObjMap' = mXoclObjMap
            /\ mBufferCount' = mBufferCount
            /\ sent' = <<>>]_vars

(* ------------------------------ C32 ----------------------------------- *)
\* the step is a call of xclMapBO on a registered BO that already has a mapping
MapsAgain ==
  /\ ret'.op = "xclMapBO"
  /\ HasBO(mXoclObjMap, ret'.arg.boHandle)
  /\ mXoclObjMap[ret'.arg.boHandle].buf # 0

\* C32: a BO has no mapped pointer until its first xclMapBO, and xclMapBO of a
\* BO that has one returns it and creates no other mapping, descriptor or
\* file-map entry
C32_MapsOnce ==
  [][/\ \A h \in DOMAIN mXoclObjMap' \ DOMAIN mXoclObjMap : mXoclObjMap'[h].buf = 0
     /\ MapsAgain =>
          /\ ret'.val = mXoclObjMap[ret'.arg.boHandle].buf
          /\ mXoclObjMap'[ret'.arg.boHandle].buf = mXoclObjMap[ret'.arg.boHandle].buf
          /\ hostMaps' = hostMaps
          /\ openFds' = openFds
          /\ mFdToFileNameMap' = mFdToFileNameMap]_vars

(* ------------------------------ C33 ----------------------------------- *)
\* the device region of a registered BO
RegionOf(h) == [addr |-> mXoclObjMap[h].base, size |-> mXoclObjMap[h].size]

\* C33: the base of every registered BO starts a busy block of its size in one
\* of the bank allocators, and the regions of two registered BOs are disjoint
C33_RegisteredBasesValid ==
  \A h \in DOMAIN mXoclObjMap :
    /\ \E i \in 1..Len(mDDRMemoryManager) :
         <<mXoclObjMap[h].base, mXoclObjMap[h].size>> \in mDDRMemoryManager[i].mBusyBufferList
    /\ \A g \in DOMAIN mXoclObjMap \ {h} : Disjoint(RegionOf(h), RegionOf(g))

(* ------------------------------ C34 ----------------------------------- *)
\* the address lies in the range of bank allocator m
InRange(m, offset) == m.mStart <= offset /\ offset < m.mStart + m.mSize

\* C34: a call of xclFreeDeviceBuffer invokes free only on the allocator of the
\* bank whose range contains the address, and only where a block starting at
\* the address is allocated
C34_FreesInOwnBankOnly ==
  [][ret'.op = "xclFreeDeviceBuffer" =>
       \A i \in 1..Len(mDDRMemoryManager) :
         CallsFree(mDDRMemoryManager[i], ret'.arg.offset) =>
           /\ InRange(mDDRMemoryManager[i], ret'.arg.offset)
           /\ \E b \in mDDRMemoryManager[i].mBusyBufferList : b[1] = ret'.arg.offset]_vars

(* ------------------------------ C35 ----------------------------------- *)
\* C35: a copy primitive that has entered its chunking loop leaves it and
\* returns, whatever the transfer size and the configured message size
C35_CopyTerminates == (cp.pc = "loop") ~> (cp.pc = "done")

(* ------------------------------ C36 ----------------------------------- *)
\* the thread that holds the lock thread t is about to take, NoThread when the
\* lock is free or t is not at a lock
WaitsOn(t) ==
  IF At(t, "lockApi") THEN mApiMtx
  ELSE IF At(t, "lockLaunch") THEN mProcessLaunchMtx
  ELSE NoThread

RECURSIVE WaitsAlong(_, _)
\* the thread reached from t by following WaitsOn n times
WaitsAlong(t, n) ==
  IF n = 0 \/ t = NoThread THEN t ELSE WaitsAlong(WaitsOn(t), n - 1)

\* C36: no thread takes mApiMtx or mProcessLaunchMtx while it holds that same
\* lock, no thread takes mApiMtx while it holds mProcessLaunchMtx (the locks
\* are nested in one order, mApiMtx outside), and no threads wait for each
\* other's locks in a circle
C36_NoLockCycle ==
  \A t \in Threads :
    /\ ~(At(t, "lockApi") /\ mApiMtx = t)
    /\ ~(At(t, "lockLaunch") /\ mProcessLaunchMtx = t)
    /\ ~(At(t, "lockApi") /\ mProcessLaunchMtx = t)
    /\ \A n \in 1..MaxThreads : WaitsAlong(t, n) # t

\* a thread inside xclImportBO holds mApiMtx and, for the lazy spawn of the
\* nested xclAllocBO, mProcessLaunchMtx, while another thread waits for a lock
\* it holds
C36_Witness ==
  \E t \in Threads, u \in Threads :
    /\ thread[t].pc = "busy" /\ thread[t].op = "xclImportBO"
    /\ mApiMtx = t /\ mProcessLaunchMtx = t
    /\ u # t /\ WaitsOn(u) = t

(* ------------------------------ C37 ----------------------------------- *)
\* the last call was a register access of a device that has its channel
RegWithChannel ==
  ret.op \in {"xclWrite", "xclRead"} /\ devices[ret.dev].S.sock

\* the request a register access forwards
RegRequest ==
  [call |-> IF ret.op = "xclWrite" THEN "xclWriteAddrKernelCtrl" ELSE "xclReadAddrKernelCtrl",
   size |-> ret.arg.size]

\* the access is one the shim forwards: the kernel-control space, and a size
\* that is a multiple of 4 for xclWrite, exactly 4 for xclRead
Forwardable ==
  /\ ret.arg.space = XCL_ADDR_KERNEL_CTRL
  /\ IF ret.op = "xclWrite" THEN ret.arg.size % 4 = 0 ELSE ret.arg.size = 4

\* C37: with the channel open, a forwardable xclWrite or xclRead forwards one
\* request and returns size; every other one returns -1 and forwards nothing
C37_RegAccessChecked ==
  RegWithChannel =>
    IF Forwardable
    THEN ret.val = ret.arg.size /\ sent = <<RegRequest>>
    ELSE ret.val = -1 /\ sent = <<>>

\* on an open channel an xclRead of 8 bytes in the kernel-control space, a
\* size xclWrite forwards, was refused
C37_Witness ==
  /\ RegWithChannel
  /\ ret.op = "xclRead" /\ ret.arg.space = XCL_ADDR_KERNEL_CTRL /\ ret.arg.size = 8
  /\ ret.val = -1

(* ------------------------------ C38 ----------------------------------- *)
\* the FunctionCallLogger destroyed in this step
Destroyed == ret'.arg.obj

\* C38: the destructor of a FunctionCallLogger invokes function_end only if the
\* constructor of that object invoked function_start, and with the name, the
\* address and the identifier of that start; and a logger invokes nothing
\* while function_start_cb is not set
C38_EndFollowsStart ==
  [][/\ ret'.op = "~FunctionCallLogger" =>
          \A i \in 1..Len(calls') :
            /\ Destroyed.start # <<>>
            /\ calls'[i] = [Destroyed.start[1] EXCEPT !.cb = "function_end_cb"]
     /\ (ret'.op \in {"FunctionCallLogger", "~FunctionCallLogger"}
         /\ ~lopCb["function_start_cb"]) => calls' = <<>>]_vars

(* ------------------------------ C39 ----------------------------------- *)
\* the callback the claim gives the action of the last event step
StatedCallback ==
  CASE ret.arg.kind = "action_read" -> "read_cb"
    [] ret.arg.kind = "action_write" -> "write_cb"
    [] ret.arg.kind = "action_ndrange" -> "enqueue_cb"
    [] ret.arg.kind = "action_migrate" ->
         IF "CL_MIGRATE_MEM_OBJECT_HOST" \in ret.arg.flags THEN "read_cb" ELSE "write_cb"

\* C39: an action made by action_read, action_write, action_migrate or
\* action_ndrange invokes its callback (read, write, read for a migration to
\* the host and write for any other, enqueue) with (uid, true) at CL_RUNNING and
\* (uid, false) at CL_COMPLETE, and invokes nothing at another status or when
\* the callback is not set
C39_ActionsTrackStartStop ==
  ret.op = "lop_action" =>
    calls = IF lopCb[StatedCallback] /\ ret.arg.status \in {"CL_RUNNING", "CL_COMPLETE"}
            THEN <<[cb |-> StatedCallback, uid |-> ret.arg.uid,
                    isStart |-> ret.arg.status = "CL_RUNNING"]>>
            ELSE <<>>

\* the action of a migration to the host has reported the end of its event to
\* the read callback, with the write callback set as well
C39_Witness ==
  /\ ret.op = "lop_action"
  /\ ret.arg.kind = "action_migrate" /\ "CL_MIGRATE_MEM_OBJECT_HOST" \in ret.arg.flags
  /\ ret.arg.status = "CL_COMPLETE"
  /\ lopCb["read_cb"] /\ lopCb["write_cb"]
  /\ calls = <<[cb |-> "read_cb", uid |-> ret.arg.uid, isStart |-> FALSE]>>

====
